---- MODULE Spec2Model ----
(***************************************************************************)
(* Model of the moderation pipeline of the Freud bot:                      *)
(*   - AntiSpam.on_message        (src/bot/cogs/antispam/antispam.py)      *)
(*   - DeletionContext.add / upload_messages (same file)                   *)
(*   - ModLog.ignore and the delete / leave listeners                      *)
(*                                 (src/bot/cogs/modlog/modlog.py)         *)
(*   - Scheduler and create_task  (src/bot/utils/scheduling.py)            *)
(*   - Filtering._filter_message and _has_watchlist_tokens                 *)
(*                                 (src/bot/cogs/filtering/filtering.py)   *)
(*   - Verification.on_message and accept_command                          *)
(*                          (src/bot/cogs/verification/verification.py)    *)
(*   - ModLog.send_log_message and AntiSpam.punish                         *)
(*   - Clean._clean_messages and clean_cancel                              *)
(*                                 (src/bot/cogs/clean/clean.py)           *)
(*                                                                         *)
(* The specifications share the variables:                                 *)
(*   Spec        the rule engine: interleaved on_message handlers          *)
(*   SpecStartup the rule engine and the start-up task of the cog          *)
(*   SpecCtx     one DeletionContext driven through add / upload_messages  *)
(*   SpecModLog  the audit log: ignore, cached / raw delete, member leave  *)
(*   SpecSched   the scheduler: schedule_task, cancel_task, the loop       *)
(*   SpecFilter  one _filter_message run over the filter table             *)
(*   SpecTokens  one call of _has_watchlist_tokens                         *)
(*   SpecGone    _filter_message and a handler of Verification, each       *)
(*               deleting a message that may already be gone               *)
(*   SpecDeletes the audit log with deletions and leaving members alone    *)
(*   SpecRegistry  the ignore registry: ignore and the listeners           *)
(*   SpecSendLog one call of send_log_message                              *)
(*   SpecPunish  interleaved punish calls                                  *)
(*   SpecClean   clean commands, clean_cancel and arriving messages        *)
(*                                                                         *)
(* Handlers are coroutines of one cooperative event loop: an action is the *)
(* code between two suspension points (await).  An exception that leaves a *)
(* handler is recorded in the handler's outcome.                           *)
(***************************************************************************)
EXTENDS Integers, Sequences, FiniteSets, TLC

VARIABLES
    handlers,                \* on_message coroutines: position and locals
    message_deletion_queue,  \* AntiSpam.message_deletion_queue
    tasks,                   \* coroutines given to bot.loop.create_task
    deletions,               \* deletion requests sent to the platform
    antispam_cog,            \* the AntiSpam cog: its start-up check and alert
    ctx,                     \* a DeletionContext (SpecCtx)
    adds,                    \* the add() calls made on ctx, in order
    upload,                  \* result of the last upload_messages on ctx
    ignored,                 \* ModLog._ignored
    cached_deletes,          \* ModLog._cached_deletes
    cached_edits,            \* ModLog._cached_edits
    events,                  \* delivered gateway events and their listeners
    audit,                   \* messages delivered to the audit channel
    scheduled_task,          \* Scheduler.scheduled_task: task id -> handle
    loop_tasks,              \* the asyncio tasks made by create_task
    sched_step,              \* the call or loop step that ran last
    cancelled_is_exception,  \* CancelledError derives from Exception
    filter_config,           \* the Filter section of the configuration
    filter_run,              \* one _filter_message coroutine: position and locals
    token_call,              \* one call of _has_watchlist_tokens
    verification,            \* one Verification handler: position and locals
    log_call,                \* one call of ModLog.send_log_message
    re_registered,           \* the last (kind, id) given to ignore while registered
    punishments,             \* AntiSpam.punish coroutines: position and locals
    member_roles,            \* the members who hold the muted role
    cleaning,                \* Clean.cleaning
    cleans,                  \* _clean_messages coroutines: position and locals
    clean_channel,           \* the channel the clean commands are given in
    clean_deleted            \* deletion requests made by _clean_messages

vars == <<handlers, message_deletion_queue, tasks, deletions, antispam_cog,
          ctx, adds, upload,
          ignored, cached_deletes, cached_edits, events, audit,
          scheduled_task, loop_tasks, sched_step, cancelled_is_exception,
          filter_config, filter_run, token_call,
          verification,
          log_call, re_registered, punishments, member_roles,
          cleaning, cleans, clean_channel, clean_deleted>>

antispamVars == <<handlers, message_deletion_queue, tasks, deletions,
                  antispam_cog>>
ctxVars == <<ctx, adds, upload>>
modlogVars == <<ignored, cached_deletes, cached_edits, events, audit>>
schedVars == <<scheduled_task, loop_tasks, sched_step, cancelled_is_exception>>
filterVars == <<filter_config, filter_run, token_call>>
verifVars == <<verification>>
callVars == <<log_call, re_registered>>
punishVars == <<punishments, member_roles>>
cleanVars == <<cleaning, cleans, clean_channel, clean_deleted>>

----------------------------------------------------------------------------
(* Bounds *)

MaxHandlers == 2   \* on_message handlers in flight

HandlerIds == 1..MaxHandlers
ChannelIds == {1, 2}

\* Channels.test, the channel the configuration designates for testing
ChannelsTest == 1

Min(a, b) == IF a < b THEN a ELSE b
Max(a, b) == IF a > b THEN a ELSE b

None == [none |-> TRUE]

----------------------------------------------------------------------------
(* AntiSpam configuration: AntiSpamConfig.rules, in declared order, with   *)
(* the interval of each rule.  The values come from the configuration file *)
(* and are inputs of the model.                                            *)

RuleOrder == <<"attachments", "burst", "links">>
RuleNames == {RuleOrder[i] : i \in 1..Len(RuleOrder)}
RuleInterval == [r \in RuleNames |->
                    IF r = "links" THEN 5 ELSE 10]

\* max(AntiSpamConfig.rules.values(), key=itemgetter('interval'))['interval']
MaxInterval ==
    CHOOSE n \in {RuleInterval[r] : r \in RuleNames} :
        \A r \in RuleNames : RuleInterval[r] <= n

\* Messages the channel history can hold: id, author, age in seconds, and
\* whether the author is a bot.  Message 4 is older than every interval.
HistoryPool ==
    { [id |-> 1, author |-> 1, age |-> 3, bot |-> FALSE],
      [id |-> 2, author |-> 2, age |-> 8, bot |-> FALSE],
      [id |-> 3, author |-> 3, age |-> 3, bot |-> TRUE],
      [id |-> 4, author |-> 1, age |-> 12, bot |-> FALSE] }

\* m was sent after n (of two messages of the same age, the one with the
\* larger id)
Newer(m, n) == m.age < n.age \/ (m.age = n.age /\ m.id > n.id)

RECURSIVE NewestFirst(_)
\* channel.history(..., oldest_first=False): the messages from the newest
\* to the oldest
NewestFirst(S) ==
    IF S = {} THEN <<>>
    ELSE LET m == CHOOSE x \in S : \A y \in S \ {x} : Newer(x, y)
         IN <<m>> \o NewestFirst(S \ {m})

\* What a channel can hold when its history is fetched: always the old
\* message and the message of the bot, and any of the others.
ChannelHistories ==
    {S \in SUBSET HistoryPool :
        \A m \in HistoryPool : (m.bot \/ m.age >= MaxInterval) => m \in S}

\* channel.history(after=earliest_relevant_at): the platform returns the
\* messages of the channel sent after the given time
HistoryAfter(channel_messages, seconds) ==
    {m \in channel_messages : m.age < seconds}

Eligibility == {"ok", "no_guild", "other_guild", "bot", "whitelisted", "staff"}

\* The rules whose predicate holds of a message: none, one, the first and
\* the last, the last two.
HitPatterns ==
    { {}, {"burst"}, {"attachments", "links"}, {"burst", "links"} }

\* An incoming message: its channel, the reason (if any) for which
\* on_message ignores it, and the rules whose predicate holds of it.
IncomingMessages ==
    { m \in [id : HandlerIds, channel : ChannelIds, elig : Eligibility,
             hits : HitPatterns] :
        m.elig = "ok" \/ m.hits = {"burst", "links"} }

\* on_message, lines 129-136
Eligible(message) == message.elig = "ok"

NotOlderThan(m, rule_name) == m.age < RuleInterval[rule_name]

\* the whole pool, whatever the rule's interval
MessagesForRuleUnnarrowed(relevant_messages, rule_name) ==
    relevant_messages

\* on_message, lines 157-160
MessagesForRule(relevant_messages, rule_name) ==
    SelectSeq(relevant_messages, LAMBDA m : NotOlderThan(m, rule_name))

\* The rule functions (bot.rules) return None or a triple
\* (reason, members, relevant_messages).
RuleFunction(message, messages_for_rule, rule_name) ==
    IF rule_name \in message.hits /\ messages_for_rule # <<>>
    THEN [none |-> FALSE,
          reason |-> rule_name,
          members |-> {messages_for_rule[i].author :
                          i \in 1..Len(messages_for_rule)},
          messages |-> {messages_for_rule[i].id :
                           i \in 1..Len(messages_for_rule)}]
    ELSE None

IdleHandler ==
    [pc |-> "idle", msg |-> None, idx |-> 0,
     fetches |-> 0,           \* calls of channel.history
     relevant |-> <<>>,       \* relevant_messages
     candidates |-> <<>>,     \* messages_for_rule of each rule evaluated
     evaluated |-> {}, matched |-> "", outcome |-> ""]

NoContext == [present |-> FALSE, members |-> <<>>, rules |-> {}, messages |-> <<>>]

\* The rules whose configuration the start-up check found invalid: the
\* validation_errors given to AntiSpam.__init__.
ValidationErrorSets == { {}, {"burst"}, {"burst", "links"} }

\* the cog once alert_on_validation_error has returned without errors
CogStarted == [validation_errors |-> {}, alert |-> "returned", loaded |-> TRUE]

\* AntiSpam.__init__, lines 92-100, given some validation_errors: the cog
\* is registered and the task alert_on_validation_error is created
AntiSpamConstructed ==
    /\ handlers = [h \in HandlerIds |-> IdleHandler]
    /\ message_deletion_queue = [c \in ChannelIds |-> NoContext]
    /\ tasks = {}
    /\ deletions = <<>>
    /\ antispam_cog \in [validation_errors : ValidationErrorSets,
                          alert : {"pending"}, loaded : {TRUE}]

\* AntiSpam.__init__ with no validation errors, once the start-up task
\* has returned
AntiSpamInit ==
    /\ handlers = [h \in HandlerIds |-> IdleHandler]
    /\ message_deletion_queue = [c \in ChannelIds |-> NoContext]
    /\ tasks = {}
    /\ deletions = <<>>
    /\ antispam_cog = CogStarted

\* on_message is dispatched for a message while the cog is registered:
\* lines 129-136, up to the await of the history fetch.
OnMessage(h) ==
    /\ antispam_cog.loaded
    /\ handlers[h].pc = "idle"
    /\ \E message \in IncomingMessages :
         /\ message.id = h
         /\ handlers' = [handlers EXCEPT ![h] =
                 IF Eligible(message)
                 THEN [@ EXCEPT !.pc = "history", !.msg = message]
                 ELSE [@ EXCEPT !.pc = "done", !.msg = message,
                                !.outcome = "returned"]]
    /\ UNCHANGED <<message_deletion_queue, tasks, deletions, antispam_cog,
                 ctxVars, modlogVars, schedVars, filterVars, verifVars, callVars, punishVars, cleanVars>>

\* The history fetch completes: lines 146-150.  The platform returns the
\* messages sent after now - max_interval; bot authors are filtered out.
FetchHistory(h) ==
    /\ handlers[h].pc = "history"
    /\ \E channel_messages \in ChannelHistories :
         LET fetched == NewestFirst(HistoryAfter(channel_messages, MaxInterval))
         IN handlers' = [handlers EXCEPT ![h] =
             [@ EXCEPT !.pc = "rules", !.idx = 1,
                       !.fetches = @ + 1,
                       !.relevant = SelectSeq(fetched, LAMBDA m : ~m.bot)]]
    /\ UNCHANGED <<message_deletion_queue, tasks, deletions, antispam_cog,
                 ctxVars, modlogVars, schedVars, filterVars, verifVars, callVars, punishVars, cleanVars>>

\* the test of line 163 inverted
IsMatchInverted(result) == result = None

\* line 163
IsMatch(result) == result # None

\* One iteration of the loop over AntiSpamConfig.rules: lines 152-186.
\* On a match, line 167 reads self.message_deletiong_queue, an attribute
\* AntiSpam never sets: the AttributeError ends the handler before any
\* context, task or deletion request is made.
EvalRule(h) ==
    LET hd == handlers[h]
        rule_name == RuleOrder[hd.idx]
        messages_for_rule == MessagesForRule(hd.relevant, rule_name)
        result == RuleFunction(hd.msg, messages_for_rule, rule_name)
    IN /\ hd.pc = "rules"
       /\ handlers' = [handlers EXCEPT ![h] =
            IF IsMatch(result)
            THEN [@ EXCEPT !.pc = "done",
                           !.candidates = Append(@, messages_for_rule),
                           !.evaluated = @ \cup {hd.idx},
                           !.matched = rule_name,
                           !.outcome = "AttributeError"]
            ELSE IF hd.idx = Len(RuleOrder)
            THEN [@ EXCEPT !.pc = "done",
                           !.candidates = Append(@, messages_for_rule),
                           !.evaluated = @ \cup {hd.idx},
                           !.outcome = "returned"]
            ELSE [@ EXCEPT !.idx = @ + 1,
                           !.candidates = Append(@, messages_for_rule),
                           !.evaluated = @ \cup {hd.idx}]]
       /\ UNCHANGED <<message_deletion_queue, tasks, deletions, antispam_cog,
                 ctxVars, modlogVars, schedVars, filterVars, verifVars, callVars, punishVars, cleanVars>>

\* Lines 170-172 and 180-183 hand the coroutines to
\* self.bot.loop.create_task, which registers no done callback on the task
\* (scheduling.create_task, which adds _silent_exception, is not used).
TaskDoneCallback(t) == "none"

NextAntiSpam ==
    \/ \E h \in HandlerIds : OnMessage(h)
    \/ \E h \in HandlerIds : FetchHistory(h)
    \/ \E h \in HandlerIds : EvalRule(h)

----------------------------------------------------------------------------
(* ModLog.send_log_message, modlog.py lines 43-88.                         *)
(* Its parameters are icon_url, colour, title, thumbnail, channel_id, ...: *)
(* there is no parameter `text`, and line 59 reads the name `text`, which  *)
(* is neither a local nor a global of the module.  A call is described by  *)
(* its number of positional arguments and the names of its keywords; the   *)
(* result is "sent" or the exception raised.                               *)

SendLogMessage(npos, kwargs) ==
    IF "text" \in kwargs
    THEN "TypeError"      \* unexpected keyword argument 'text'
    ELSE IF npos >= 4 /\ "thumbnail" \in kwargs
    THEN "TypeError"      \* multiple values for argument 'thumbnail'
    ELSE "NameError"      \* line 59: name 'text' is not defined

----------------------------------------------------------------------------
(* AntiSpam.alert_on_validation_error, antispam.py lines 107-124: the task *)
(* created by __init__.  Once the bot is ready and if there are validation *)
(* errors, it sends the alert and then removes the cog; the call of        *)
(* send_log_message raises before it suspends, so the task ends in one     *)
(* step and the statement after the call is not reached.                   *)

ValidationAlert(errors) ==
    [ev |-> 0, path |-> "validation", degraded |-> FALSE, errors |-> errors]

AlertOnValidationError ==
    LET status == SendLogMessage(0, {"title", "text", "ping_everyone",
                                     "icon_url", "colour"})
    IN /\ antispam_cog.alert = "pending"
       /\ antispam_cog' =
            IF antispam_cog.validation_errors = {}
            THEN [antispam_cog EXCEPT !.alert = "returned"]
            ELSE IF status = "sent"
            THEN \* line 123: self.bot.remove_cog(...)
                 [antispam_cog EXCEPT !.alert = "sent", !.loaded = FALSE]
            ELSE [antispam_cog EXCEPT !.alert = status]
       /\ audit' =
            IF antispam_cog.validation_errors # {} /\ status = "sent"
            THEN Append(audit, ValidationAlert(antispam_cog.validation_errors))
            ELSE audit
       /\ UNCHANGED <<handlers, message_deletion_queue, tasks, deletions,
                      ignored, cached_deletes, cached_edits, events,
                      ctxVars, schedVars, filterVars, verifVars, callVars, punishVars, cleanVars>>

----------------------------------------------------------------------------
(* DeletionContext: antispam.py lines 36-86.                               *)
(* A dict is a sequence of entries [k, v] in insertion order.  A text is   *)
(* known by its length; the alert text also records which message its      *)
(* content was taken from and how much of it was kept.                     *)

MaxAdds == 2       \* add calls on one context
MaxPreload == 50   \* members given to the DeletionContext constructor

MemberIds == 1..2
MessageIds == 1..2
NameLens == {4, 32}
ContentLens == {10, 2100}

\* discord.Member: id and len(display_name).  Two records with the same id
\* are two objects for the same member.
MemberObjs == {m \in [id : MemberIds, nlen : NameLens] : m.id = 1 \/ m.nlen = 32}
\* discord.Message: id and len(clean_content).
MessageObjs == {m \in [id : MessageIds, clen : ContentLens] : m.id = 1 \/ m.clen = 10}

SeqsUpTo(S, n) == UNION {[1..k -> S] : k \in 0..n}

\* the iterables passed to add: up to two objects
Iterables(S) == SeqsUpTo(S, 2)

\* A value stored in DeletionContext.members: a Member, or whatever else
\* was assigned.
AsMember(m) == [tag |-> "member", items |-> <<m>>]
AsIterable(ms) == [tag |-> "iterable", items |-> ms]

Keys(d) == {d[i].k : i \in 1..Len(d)}
Values(d) == [i \in 1..Len(d) |-> d[i].v]
Lookup(d, key) == (CHOOSE i \in 1..Len(d) : d[i].k = key)

\* DeletionContext(channel=...), lines 40-43; `pre` counts the members
\* passed to the constructor.
NewContext ==
    [members |-> <<>>, rules |-> {}, messages |-> <<>>, pre |-> 0]

PreloadedContext(n) ==
    [members |-> [i \in 1..n |->
                    [k |-> i, v |-> AsMember([id |-> i, nlen |-> 32])]],
     rules |-> {}, messages |-> <<>>, pre |-> n]

RECURSIVE AddMembers(_, _, _)
\* lines 49-51: the value stored is `members`, the whole iterable
AddMembers(d, members, i) ==
    IF i > Len(members) THEN d
    ELSE AddMembers(
            IF members[i].id \notin Keys(d)
            THEN Append(d, [k |-> members[i].id, v |-> AsIterable(members)])
            ELSE d,
            members, i + 1)

RECURSIVE AddMessages(_, _, _)
\* lines 53-55
AddMessages(d, messages, i) ==
    IF i > Len(messages) THEN d
    ELSE AddMessages(
            IF messages[i].id \notin Keys(d)
            THEN Append(d, [k |-> messages[i].id, v |-> messages[i]])
            ELSE d,
            messages, i + 1)

\* DeletionContext.add, lines 45-55
Add(c, rule_name, members, messages) ==
    [c EXCEPT !.rules = @ \cup {rule_name},
              !.members = AddMembers(@, members, 1),
              !.messages = AddMessages(@, messages, 1)]

RECURSIVE SumSeq(_, _)
SumSeq(s, i) == IF i > Len(s) THEN 0 ELSE s[i] + SumSeq(s, i + 1)

\* len(", ".join(parts)) for parts of the given lengths
JoinLen(lens) ==
    IF Len(lens) = 0 THEN 0 ELSE SumSeq(lens, 1) + 2 * (Len(lens) - 1)

\* len(str(n)) for a positive id
DecLen(n) == IF n < 10 THEN 1 ELSE IF n < 100 THEN 2 ELSE 3

\* len(f"{m.display_name}#{m.discriminator} (`{m.id}`)"), line 59
MemberTagLen(m) == m.nlen + 1 + 4 + 3 + DecLen(m.id) + 2

RuleNameLen(r) == IF r = "attachments" THEN 11 ELSE 5

SetToSeq(S) ==
    CHOOSE s \in [1..Cardinality(S) -> S] :
        \A x \in S : \E i \in 1..Cardinality(S) : s[i] = x

ContextChannelId == 1

\* len(mod_alert_message) after line 67
PreambleLen(c) ==
    LET vs == Values(c.members)
        users == JoinLen([i \in 1..Len(vs) |-> MemberTagLen(vs[i].items[1])])
        rs == SetToSeq(c.rules)
        rules == JoinLen([i \in 1..Len(rs) |-> RuleNameLen(rs[i])])
    IN (18 + users + 1) + (13 + 3 + DecLen(ContextChannelId) + 1)
       + (11 + rules + 1) + 9

AlertBudget == 2040

\* len(content[:n]) for a content of length len: a negative n counts from
\* the end of the string
SliceLen(len, n) == IF n >= 0 THEN Min(len, n) ELSE Max(0, len + n)

NoText == [pre |-> 0, src |-> None, kept |-> 0, ell |-> FALSE]

TextLen(t) == t.pre + t.kept + (IF t.ell THEN 3 ELSE 0)

\* DeletionContext.upload_messages, lines 57-86: the exception raised (or
\* "sent") and the alert text composed up to that point.
UploadMessages(c) ==
    LET vs == Values(c.members)
        ms == Values(c.messages)
    IN IF \E i \in 1..Len(vs) : vs[i].tag # "member"
       THEN \* line 59: an iterable has no display_name
            [status |-> "AttributeError", text |-> NoText]
       ELSE IF Len(ms) # 1
       THEN \* line 68: [message] = ... unpacks exactly one value
            [status |-> "ValueError", text |-> NoText]
       ELSE LET message == ms[1]
                remaining_chars == AlertBudget - PreambleLen(c)
                text == IF message.clen > remaining_chars
                        THEN [pre |-> PreambleLen(c), src |-> message,
                              kept |-> SliceLen(message.clen, remaining_chars),
                              ell |-> TRUE]
                        ELSE [pre |-> PreambleLen(c), src |-> message,
                              kept |-> message.clen, ell |-> FALSE]
            IN \* lines 78-86
               [status |-> SendLogMessage(0, {"icon_url", "colour", "title",
                                "text", "thumbnail", "channel_id",
                                "ping_everyone"}),
                text |-> text]

NoUpload == [status |-> "", text |-> NoText]

NoAdds == [n |-> 0, rules |-> {},
           first_member |-> [i \in MemberIds |-> None],
           first_message |-> [i \in MessageIds |-> None]]

CtxIdle ==
    /\ ctx = NewContext
    /\ adds = NoAdds
    /\ upload = NoUpload

CtxInit ==
    /\ ctx \in {NewContext, PreloadedContext(1), PreloadedContext(MaxPreload)}
    /\ adds = NoAdds
    /\ upload = NoUpload

RECURSIVE FirstSeen(_, _, _)
\* the first object of each id in the iterable, for ids not yet seen
FirstSeen(first, objs, i) ==
    IF i > Len(objs) THEN first
    ELSE FirstSeen(
            IF first[objs[i].id] = None
            THEN [first EXCEPT ![objs[i].id] = objs[i]]
            ELSE first,
            objs, i + 1)

\* a caller invokes ctx.add(rule_name, members, messages)
CtxAdd ==
    /\ adds.n < MaxAdds
    /\ \E rule_name \in RuleNames,
          members \in Iterables(MemberObjs),
          messages \in Iterables(MessageObjs) :
         /\ ctx' = Add(ctx, rule_name, members, messages)
         /\ adds' = [n |-> adds.n + 1,
                     rules |-> adds.rules \cup {rule_name},
                     first_member |-> FirstSeen(adds.first_member, members, 1),
                     first_message |-> FirstSeen(adds.first_message, messages, 1)]
    /\ upload' = NoUpload
    /\ UNCHANGED <<antispamVars, modlogVars, schedVars, filterVars, verifVars, callVars, punishVars, cleanVars>>

\* a caller awaits ctx.upload_messages(actor_id, modlog)
CtxUpload ==
    /\ upload = NoUpload
    /\ upload' = UploadMessages(ctx)
    /\ UNCHANGED <<ctx, adds, antispamVars, modlogVars, schedVars, filterVars, verifVars, callVars, punishVars, cleanVars>>

NextCtx == CtxAdd \/ CtxUpload

----------------------------------------------------------------------------
(* ModLog: modlog.py.  The ignore registry, the seen-lists of deleted and  *)
(* of edited message ids, and the listeners for message deletion and       *)
(* message edit (cached and raw) and for a member leaving.                 *)
(* For one gateway event the library dispatches the raw listener and then  *)
(* the cached one, each as a task of the loop: the cached listener has run *)
(* its first step before the raw listener's one-second sleep ends.         *)

MaxEvents == 2     \* gateway events delivered

ModIds == 1..2
EventKinds == {"message_delete", "member_remove"}

\* where the event comes from: the monitored guild and a channel that is
\* not in Guild.ignored; or another guild or an ignored channel
Scopes == {"monitored", "unmonitored"}

Contains(s, x) == \E i \in 1..Len(s) : s[i] = x

\* list.remove(x): removes the first occurrence
Remove(s, x) ==
    LET i == CHOOSE j \in 1..Len(s) :
                 s[j] = x /\ \A k \in 1..(j - 1) : s[k] # x
    IN SubSeq(s, 1, i - 1) \o SubSeq(s, i + 1, Len(s))

\* ignore appending every item, without the membership test of line 40
IgnoreItemsUnchecked(list, items, i) == list \o items

RECURSIVE IgnoreItems(_, _, _)
\* ModLog.ignore, lines 39-41
IgnoreItems(list, items, i) ==
    IF i > Len(items) THEN list
    ELSE IgnoreItems(
            IF ~Contains(list, items[i]) THEN Append(list, items[i]) ELSE list,
            items, i + 1)

AuditEntry(ev, path, degraded) ==
    [ev |-> ev, path |-> path, degraded |-> degraded]

ModLogInit ==
    /\ ignored = [k \in EventKinds |-> <<>>]
    /\ cached_deletes = <<>>
    /\ cached_edits = <<>>
    /\ events = <<>>
    /\ audit = <<>>

\* ModLog.ignore(event, *items), lines 37-41
Ignore ==
    /\ \E kind \in EventKinds, items \in SeqsUpTo(ModIds, 2) :
         ignored' = [ignored EXCEPT ![kind] = IgnoreItems(@, items, 1)]
    /\ UNCHANGED <<cached_deletes, cached_edits, events, audit, antispamVars, ctxVars, schedVars, filterVars, verifVars, callVars, punishVars, cleanVars>>

\* the items of the call that line 40 finds in the list: those registered
\* before the call and those the call gives more than once
Repeats(list, items) ==
    {x \in ModIds :
        \/ Contains(list, x) /\ Contains(items, x)
        \/ Cardinality({i \in 1..Len(items) : items[i] = x}) >= 2}

\* ModLog.ignore(event, *items), lines 37-41; re_registered keeps the last
\* (kind, id) that a call gave while the registry held it
IgnoreCall ==
    /\ \E kind \in EventKinds, items \in SeqsUpTo(ModIds, 2) :
         /\ ignored' = [ignored EXCEPT ![kind] = IgnoreItems(@, items, 1)]
         /\ \/ /\ Repeats(ignored[kind], items) = {}
               /\ re_registered' = re_registered
            \/ \E x \in Repeats(ignored[kind], items) :
                  re_registered' = [kind |-> kind, id |-> x]
    /\ UNCHANGED <<cached_deletes, cached_edits, events, audit, log_call, antispamVars, ctxVars, schedVars, filterVars, verifVars, punishVars, cleanVars>>

\* The gateway reports a deleted message: on_raw_message_delete is always
\* dispatched, on_message_delete only when the message was in the cache
\* (the raw event carries no author).
\* An event records the state of its listeners: c for the cached path (or
\* the leave listener), r for the raw path.
DeliverDelete ==
    /\ Len(events) < MaxEvents
    /\ \E id \in ModIds, cached \in BOOLEAN, scope \in Scopes, bot \in BOOLEAN :
         /\ bot => cached
         /\ scope = "unmonitored" => cached /\ ~bot
         /\ events' = Append(events,
             [kind |-> "delete", id |-> id, cached |-> cached,
              scope |-> scope, bot |-> bot, same |-> FALSE, edited |-> FALSE,
              c |-> IF cached THEN "pending" ELSE "none",
              r |-> "pending"])
    /\ UNCHANGED <<ignored, cached_deletes, cached_edits, audit, antispamVars, ctxVars, schedVars, filterVars, verifVars, callVars, punishVars, cleanVars>>

\* on_message_delete returning on an ignored id without removing it from
\* the registry
OnMessageDeleteKeepsIgnore(e) ==
    LET ev == events[e]
        status == SendLogMessage(4, {"channel_id"})
    IN /\ ev.kind = "delete" /\ ev.c = "pending"
       /\ UNCHANGED <<cached_edits, antispamVars, ctxVars, schedVars, filterVars, verifVars, callVars, punishVars, cleanVars>>
       /\ IF ev.scope = "unmonitored"
          THEN /\ events' = [events EXCEPT ![e].c = "returned"]
               /\ UNCHANGED <<ignored, cached_deletes, audit>>
          ELSE /\ cached_deletes' = Append(cached_deletes, ev.id)
               /\ IF Contains(ignored["message_delete"], ev.id)
                  THEN /\ events' = [events EXCEPT ![e].c = "suppressed"]
                       /\ UNCHANGED <<ignored, audit>>
                  ELSE IF ev.bot
                  THEN /\ events' = [events EXCEPT ![e].c = "returned_bot"]
                       /\ UNCHANGED <<ignored, audit>>
                  ELSE /\ events' = [events EXCEPT ![e].c = status]
                       /\ audit' = IF status = "sent"
                                   THEN Append(audit, AuditEntry(e, "cached", FALSE))
                                   ELSE audit
                       /\ UNCHANGED ignored

\* ModLog.on_message_delete, lines 129-175
OnMessageDelete(e) ==
    LET ev == events[e]
        status == SendLogMessage(4, {"channel_id"})
    IN /\ ev.kind = "delete" /\ ev.c = "pending"
       /\ UNCHANGED <<cached_edits, antispamVars, ctxVars, schedVars, filterVars, verifVars, callVars, punishVars, cleanVars>>
       /\ IF ev.scope = "unmonitored"
          THEN /\ events' = [events EXCEPT ![e].c = "returned"]
               /\ UNCHANGED <<ignored, cached_deletes, audit>>
          ELSE /\ cached_deletes' = Append(cached_deletes, ev.id)
               /\ IF Contains(ignored["message_delete"], ev.id)
                  THEN /\ ignored' = [ignored EXCEPT
                              !["message_delete"] = Remove(@, ev.id)]
                       /\ events' = [events EXCEPT ![e].c = "suppressed"]
                       /\ UNCHANGED audit
                  ELSE IF ev.bot
                  THEN /\ events' = [events EXCEPT ![e].c = "returned_bot"]
                       /\ UNCHANGED <<ignored, audit>>
                  ELSE /\ events' = [events EXCEPT ![e].c = status]
                       /\ audit' = IF status = "sent"
                                   THEN Append(audit, AuditEntry(e, "cached", FALSE))
                                   ELSE audit
                       /\ UNCHANGED ignored

\* ModLog.on_raw_message_delete, lines 177-183: up to asyncio.sleep(1)
OnRawMessageDelete(e) ==
    LET ev == events[e]
    IN /\ ev.kind = "delete" /\ ev.r = "pending"
       /\ UNCHANGED <<cached_edits, antispamVars, ctxVars, schedVars, filterVars, verifVars, callVars, punishVars, cleanVars>>
       /\ events' = [events EXCEPT ![e].r =
              IF ev.scope = "monitored" THEN "sleeping" ELSE "returned"]
       /\ UNCHANGED <<ignored, cached_deletes, audit>>

\* on_raw_message_delete removing the id from the seen-list without
\* testing that it is there: list.remove raises ValueError when it is not
OnRawMessageDeleteWakeUntested(e) ==
    LET ev == events[e]
    IN /\ ev.kind = "delete" /\ ev.r = "sleeping"
       /\ ev.c # "pending"
       /\ UNCHANGED <<cached_edits, antispamVars, ctxVars, schedVars, filterVars, verifVars, callVars, punishVars, cleanVars>>
       /\ IF Contains(cached_deletes, ev.id)
          THEN /\ cached_deletes' = Remove(cached_deletes, ev.id)
               /\ events' = [events EXCEPT ![e].r = "deduped"]
               /\ UNCHANGED <<ignored, audit>>
          ELSE /\ events' = [events EXCEPT ![e].r = "ValueError"]
               /\ UNCHANGED <<ignored, cached_deletes, audit>>

\* on_raw_message_delete going to the registry and to the audit entry
\* without looking at the seen-list
OnRawMessageDeleteWakeNoDedup(e) ==
    LET ev == events[e]
        status == SendLogMessage(4, {"channel_id"})
    IN /\ ev.kind = "delete" /\ ev.r = "sleeping"
       /\ ev.c # "pending"
       /\ UNCHANGED <<cached_edits, antispamVars, ctxVars, schedVars, filterVars, verifVars, callVars, punishVars, cleanVars>>
       /\ IF Contains(ignored["message_delete"], ev.id)
          THEN /\ ignored' = [ignored EXCEPT
                      !["message_delete"] = Remove(@, ev.id)]
               /\ events' = [events EXCEPT ![e].r = "suppressed"]
               /\ UNCHANGED <<cached_deletes, audit>>
          ELSE /\ events' = [events EXCEPT ![e].r = status]
               /\ audit' = IF status = "sent"
                           THEN Append(audit, AuditEntry(e, "raw", TRUE))
                           ELSE audit
               /\ UNCHANGED <<ignored, cached_deletes>>

\* ModLog.on_raw_message_delete, lines 185-215: after the sleep
OnRawMessageDeleteWake(e) ==
    LET ev == events[e]
        status == SendLogMessage(4, {"channel_id"})
    IN /\ ev.kind = "delete" /\ ev.r = "sleeping"
       /\ ev.c # "pending"
       /\ UNCHANGED <<cached_edits, antispamVars, ctxVars, schedVars, filterVars, verifVars, callVars, punishVars, cleanVars>>
       /\ IF Contains(cached_deletes, ev.id)
          THEN /\ cached_deletes' = Remove(cached_deletes, ev.id)
               /\ events' = [events EXCEPT ![e].r = "deduped"]
               /\ UNCHANGED <<ignored, audit>>
          ELSE IF Contains(ignored["message_delete"], ev.id)
          THEN /\ ignored' = [ignored EXCEPT
                      !["message_delete"] = Remove(@, ev.id)]
               /\ events' = [events EXCEPT ![e].r = "suppressed"]
               /\ UNCHANGED <<cached_deletes, audit>>
          ELSE /\ events' = [events EXCEPT ![e].r = status]
               /\ audit' = IF status = "sent"
                           THEN Append(audit, AuditEntry(e, "raw", TRUE))
                           ELSE audit
               /\ UNCHANGED <<ignored, cached_deletes>>

\* ModLog.on_member_leave, lines 112-127, dispatched for a leaving member
OnMemberLeave ==
    /\ Len(events) < MaxEvents
    /\ \E id \in ModIds, scope \in Scopes :
         LET e == Len(events) + 1
             hit == Contains(ignored["member_remove"], id)
             status == SendLogMessage(4, {"thumbnail", "channel_id"})
             outcome == IF scope = "unmonitored" THEN "returned"
                        ELSE IF hit THEN "suppressed" ELSE status
         IN /\ events' = Append(events,
                  [kind |-> "leave", id |-> id, cached |-> FALSE,
                   scope |-> scope, bot |-> FALSE, same |-> FALSE,
                   edited |-> FALSE,
                   c |-> outcome, r |-> "none"])
            /\ ignored' = IF scope = "monitored" /\ hit
                          THEN [ignored EXCEPT !["member_remove"] = Remove(@, id)]
                          ELSE ignored
            /\ audit' = IF outcome = "sent"
                        THEN Append(audit, AuditEntry(e, "leave", FALSE))
                        ELSE audit
    /\ UNCHANGED <<cached_deletes, cached_edits, antispamVars, ctxVars, schedVars, filterVars, verifVars, callVars, punishVars, cleanVars>>

\* The gateway reports an edited message: on_raw_message_edit is always
\* dispatched, on_message_edit only when the message was in the cache.
\* same: the content is unchanged (an embed was added, a pin changed);
\* edited: the message had been edited before.
DeliverEdit ==
    /\ Len(events) < MaxEvents
    /\ \E id \in ModIds, cached \in BOOLEAN, scope \in Scopes,
          bot \in BOOLEAN, same \in BOOLEAN, edited \in BOOLEAN :
         /\ scope = "unmonitored" => ~bot
         /\ same => cached /\ scope = "monitored" /\ ~bot
         /\ edited => cached /\ scope = "monitored" /\ ~bot /\ ~same
         /\ events' = Append(events,
             [kind |-> "edit", id |-> id, cached |-> cached,
              scope |-> scope, bot |-> bot, same |-> same, edited |-> edited,
              c |-> IF cached THEN "pending" ELSE "none",
              r |-> "pending"])
    /\ UNCHANGED <<ignored, cached_deletes, cached_edits, audit, antispamVars, ctxVars, schedVars, filterVars, verifVars, callVars, punishVars, cleanVars>>

\* ModLog.on_message_edit, lines 217-285
OnMessageEdit(e) ==
    LET ev == events[e]
        status == IF ev.edited
                  THEN \* line 271: relativedelta(after.edited_at, before.edit)
                       \* is given a bound method
                       "TypeError"
                  ELSE SendLogMessage(4, {"channel_id", "timestamp_override",
                                          "footer"})
    IN /\ ev.kind = "edit" /\ ev.c = "pending"
       /\ UNCHANGED <<ignored, cached_deletes, antispamVars, ctxVars, schedVars, filterVars, verifVars, callVars, punishVars, cleanVars>>
       /\ IF ev.scope = "unmonitored" \/ ev.bot
          THEN /\ events' = [events EXCEPT ![e].c = "returned"]
               /\ UNCHANGED <<cached_edits, audit>>
          ELSE /\ cached_edits' = Append(cached_edits, ev.id)
               /\ IF ev.same
                  THEN /\ events' = [events EXCEPT ![e].c = "returned_same"]
                       /\ UNCHANGED audit
                  ELSE /\ events' = [events EXCEPT ![e].c = status]
                       /\ audit' = IF status = "sent"
                                   THEN Append(audit, AuditEntry(e, "cached", FALSE))
                                   ELSE audit

\* ModLog.on_raw_message_edit, lines 287-304: fetch_message completes,
\* with the message or with NotFound when the message is gone; up to
\* asyncio.sleep(1)
OnRawMessageEdit(e) ==
    LET ev == events[e]
    IN /\ ev.kind = "edit" /\ ev.r = "pending"
       /\ \E found \in BOOLEAN :
            events' = [events EXCEPT ![e].r =
                IF ~found THEN "returned_notfound"
                ELSE IF ev.scope = "unmonitored" \/ ev.bot THEN "returned"
                ELSE "sleeping"]
       /\ UNCHANGED <<ignored, cached_deletes, cached_edits, audit, antispamVars, ctxVars, schedVars, filterVars, verifVars, callVars, punishVars, cleanVars>>

\* ModLog.on_raw_message_edit, lines 306-354: after the sleep
OnRawMessageEditWake(e) ==
    LET ev == events[e]
        status == SendLogMessage(4, {"channel_id"})
    IN /\ ev.kind = "edit" /\ ev.r = "sleeping"
       /\ ev.c # "pending"
       /\ UNCHANGED <<ignored, cached_deletes, antispamVars, ctxVars, schedVars, filterVars, verifVars, callVars, punishVars, cleanVars>>
       /\ IF Contains(cached_edits, ev.id)
          THEN /\ cached_edits' = Remove(cached_edits, ev.id)
               /\ events' = [events EXCEPT ![e].r = "deduped"]
               /\ UNCHANGED audit
          ELSE /\ events' = [events EXCEPT ![e].r = status]
               /\ audit' = IF status = "sent"
                           THEN Append(audit, AuditEntry(e, "raw", TRUE))
                           ELSE audit
               /\ UNCHANGED cached_edits

NextModLog ==
    \/ Ignore
    \/ DeliverDelete
    \/ DeliverEdit
    \/ OnMemberLeave
    \/ \E e \in 1..Len(events) : OnMessageDelete(e)
    \/ \E e \in 1..Len(events) : OnRawMessageDelete(e)
    \/ \E e \in 1..Len(events) : OnRawMessageDeleteWake(e)
    \/ \E e \in 1..Len(events) : OnMessageEdit(e)
    \/ \E e \in 1..Len(events) : OnRawMessageEdit(e)
    \/ \E e \in 1..Len(events) : OnRawMessageEditWake(e)

----------------------------------------------------------------------------
(* Scheduler: src/bot/utils/scheduling.py.                                 *)
(* scheduled_task is a dict from task id to asyncio.Task; a task is known  *)
(* by its position in loop_tasks.  The body of a task is the coroutine     *)
(* _scheduled_task, which is abstract: a subclass supplies it, so the body *)
(* may return, raise, or end cancelled, at any of its suspension points.   *)
(* A task is                                                               *)
(*   "created"    made by ensure_future, first step not yet run            *)
(*   "running"    body started and suspended                               *)
(*   "finished" / "failed" / "cancelled"   done                            *)
(* cancelled records that Task.cancel() was called on the task while it    *)
(* was not done.  callback is the outcome of the done callback once the    *)
(* loop has run it.                                                        *)
(* CancelledError derives from Exception up to Python 3.7 and from         *)
(* BaseException from 3.8 on; the interpreter is fixed for a run.          *)
(***************************************************************************)
MaxTasks == 2      \* tasks created through create_task

TaskIds == {"a", "b"}

TaskDone(t) == t.state \in {"finished", "failed", "cancelled"}

NoStep == [op |-> "", id |-> "", result |-> ""]
LoopStep == [op |-> "loop", id |-> "", result |-> ""]

SchedIdle ==
    /\ scheduled_task = <<>>
    /\ loop_tasks = <<>>
    /\ sched_step = NoStep
    /\ cancelled_is_exception = TRUE

SchedInit ==
    /\ scheduled_task = <<>>
    /\ loop_tasks = <<>>
    /\ sched_step = NoStep
    /\ cancelled_is_exception \in BOOLEAN

\* create_task: ensure_future and add_done_callback(_silent_exception)
CreateTask(task_id) ==
    [id |-> task_id, state |-> "created", cancelled |-> FALSE, callback |-> ""]

\* del d[key]
DictDel(d, key) == [k \in DOMAIN d \ {key} |-> d[k]]

\* d[key] = value
DictSet(d, key, value) == [k \in DOMAIN d \cup {key} |-> IF k = key THEN value ELSE d[k]]

\* schedule_task with the test of line 30 left out
ScheduleTaskUnguarded(task_id) ==
    /\ Len(loop_tasks) < MaxTasks
    /\ loop_tasks' = Append(loop_tasks, CreateTask(task_id))
    /\ scheduled_task' = DictSet(scheduled_task, task_id, Len(loop_tasks) + 1)
    /\ sched_step' = [op |-> "schedule_task", id |-> task_id, result |-> "started"]
    /\ UNCHANGED <<cancelled_is_exception, antispamVars, ctxVars, modlogVars, filterVars, verifVars, callVars, punishVars, cleanVars>>

ScheduleTask(task_id) ==
    /\ task_id \in DOMAIN scheduled_task \/ Len(loop_tasks) < MaxTasks
    /\ IF task_id \in DOMAIN scheduled_task
       THEN /\ sched_step' = [op |-> "schedule_task", id |-> task_id,
                              result |-> "returned"]
            /\ UNCHANGED <<scheduled_task, loop_tasks>>
       ELSE /\ loop_tasks' = Append(loop_tasks, CreateTask(task_id))
            /\ scheduled_task' = DictSet(scheduled_task, task_id, Len(loop_tasks) + 1)
            /\ sched_step' = [op |-> "schedule_task", id |-> task_id,
                              result |-> "started"]
    /\ UNCHANGED <<cancelled_is_exception, antispamVars, ctxVars, modlogVars, filterVars, verifVars, callVars, punishVars, cleanVars>>

\* Task.cancel(): no effect on a task that is done; otherwise the
\* cancellation is requested and reaches the body at its next step.
TaskCancel(t) == IF TaskDone(t) THEN t ELSE [t EXCEPT !.cancelled = TRUE]

\* cancel_task with the del of line 48 left out
CancelTaskKeepsEntry(task_id) ==
    /\ IF task_id \notin DOMAIN scheduled_task
       THEN /\ sched_step' = [op |-> "cancel_task", id |-> task_id,
                              result |-> "warning"]
            /\ UNCHANGED <<scheduled_task, loop_tasks>>
       ELSE /\ loop_tasks' = [loop_tasks EXCEPT ![scheduled_task[task_id]] = TaskCancel(@)]
            /\ UNCHANGED scheduled_task
            /\ sched_step' = [op |-> "cancel_task", id |-> task_id,
                              result |-> "unscheduled"]
    /\ UNCHANGED <<cancelled_is_exception, antispamVars, ctxVars, modlogVars, filterVars, verifVars, callVars, punishVars, cleanVars>>

\* cancel_task with the task.cancel() of line 46 left out
CancelTaskOnlyForgets(task_id) ==
    /\ IF task_id \notin DOMAIN scheduled_task
       THEN /\ sched_step' = [op |-> "cancel_task", id |-> task_id,
                              result |-> "warning"]
            /\ UNCHANGED <<scheduled_task, loop_tasks>>
       ELSE /\ scheduled_task' = DictDel(scheduled_task, task_id)
            /\ UNCHANGED loop_tasks
            /\ sched_step' = [op |-> "cancel_task", id |-> task_id,
                              result |-> "unscheduled"]
    /\ UNCHANGED <<cancelled_is_exception, antispamVars, ctxVars, modlogVars, filterVars, verifVars, callVars, punishVars, cleanVars>>

CancelTask(task_id) ==
    /\ IF task_id \notin DOMAIN scheduled_task
       THEN /\ sched_step' = [op |-> "cancel_task", id |-> task_id,
                              result |-> "warning"]
            /\ UNCHANGED <<scheduled_task, loop_tasks>>
       ELSE /\ loop_tasks' = [loop_tasks EXCEPT ![scheduled_task[task_id]] = TaskCancel(@)]
            /\ scheduled_task' = DictDel(scheduled_task, task_id)
            /\ sched_step' = [op |-> "cancel_task", id |-> task_id,
                              result |-> "unscheduled"]
    /\ UNCHANGED <<cancelled_is_exception, antispamVars, ctxVars, modlogVars, filterVars, verifVars, callVars, punishVars, cleanVars>>

\* The loop runs the first step of a task: the body starts, or, when the
\* task was cancelled before its first step, the task ends cancelled
\* without the body having run.
TaskFirstStep(t) ==
    /\ loop_tasks[t].state = "created"
    /\ loop_tasks' = [loop_tasks EXCEPT ![t].state =
                          IF loop_tasks[t].cancelled THEN "cancelled" ELSE "running"]
    /\ sched_step' = LoopStep
    /\ UNCHANGED <<scheduled_task, cancelled_is_exception,
                   antispamVars, ctxVars, modlogVars, filterVars, verifVars, callVars, punishVars, cleanVars>>

\* The body of a running task ends: it returns or raises; once cancellation
\* was requested it can also end cancelled.
TaskEnds(t) ==
    /\ loop_tasks[t].state = "running"
    /\ \E end \in {"finished", "failed", "cancelled"} :
         /\ end = "cancelled" => loop_tasks[t].cancelled
         /\ loop_tasks' = [loop_tasks EXCEPT ![t].state = end]
    /\ sched_step' = LoopStep
    /\ UNCHANGED <<scheduled_task, cancelled_is_exception,
                   antispamVars, ctxVars, modlogVars, filterVars, verifVars, callVars, punishVars, cleanVars>>

\* _silent_exception with nothing suppressed
SilentExceptionBare(state, suppressed) ==
    IF state = "cancelled" THEN "CancelledError" ELSE "returned"

\* _silent_exception(future): future.exception() returns None for a task
\* that returned, returns the exception of a task that raised, and raises
\* CancelledError for a cancelled task; suppress(Exception) swallows what
\* derives from Exception.
SilentException(state, suppressed) ==
    IF state = "cancelled" /\ ~suppressed THEN "CancelledError" ELSE "returned"

\* The loop runs the done callback of a task that is done.
DoneCallback(t) ==
    /\ TaskDone(loop_tasks[t])
    /\ loop_tasks[t].callback = ""
    /\ loop_tasks' = [loop_tasks EXCEPT ![t].callback =
                          SilentException(loop_tasks[t].state, cancelled_is_exception)]
    /\ sched_step' = LoopStep
    /\ UNCHANGED <<scheduled_task, cancelled_is_exception,
                   antispamVars, ctxVars, modlogVars, filterVars, verifVars, callVars, punishVars, cleanVars>>

NextSched ==
    \/ \E task_id \in TaskIds : ScheduleTask(task_id)
    \/ \E task_id \in TaskIds : CancelTask(task_id)
    \/ \E t \in 1..Len(loop_tasks) : TaskFirstStep(t)
    \/ \E t \in 1..Len(loop_tasks) : TaskEnds(t)
    \/ \E t \in 1..Len(loop_tasks) : DoneCallback(t)

----------------------------------------------------------------------------
(* Filtering: src/bot/cogs/filtering/filtering.py.                         *)
(* self.filters is the dict literal of lines 47-97, in its written order;  *)
(* each entry is known by its type and by the keys the literal gives it.   *)
(* Three entries are not what _filter_message reads:                       *)
(*   filter_domains  has the key "notifcation_msg", not "notification_msg" *)
(*   watch_tokens    has the key "content_ony", not "content_only"         *)
(*   filter_domains  gives "content_only" the name Trie, which the module  *)
(*                   does not define: __init__ raises NameError at line 73 *)
(*                   while it builds the table.                            *)
(* _filter_message is modelled on the table as the literal writes it; the  *)
(* value of "content_only", when the key is there, only chooses whether    *)
(* the function is given msg.content or msg.                               *)
(* What a filter function returns for a message is an input: the message   *)
(* carries the names of the filters whose function returns a true value.   *)
(***************************************************************************)
Filters ==
    << [name |-> "filter_zalgo", type |-> "filter",
        keys |-> {"enabled", "function", "type", "content_only",
                  "user_notification", "notification_msg"}],
       [name |-> "filter_invites", type |-> "filter",
        keys |-> {"enabled", "function", "type", "content_only",
                  "user_notification", "notification_msg"}],
       [name |-> "filter_domains", type |-> "filter",
        keys |-> {"enabled", "function", "type", "content_only",
                  "user_notification", "notifcation_msg"}],
       [name |-> "watch_rich_embeds", type |-> "watchlist",
        keys |-> {"enabled", "function", "type", "content_only"}],
       [name |-> "watch_words", type |-> "watchlist",
        keys |-> {"enabled", "function", "type", "content_only"}],
       [name |-> "watch_tokens", type |-> "watchlist",
        keys |-> {"enabled", "function", "type", "content_ony"}] >>

FilterNames == {Filters[i].name : i \in 1..Len(Filters)}

\* Filter.filter_zalgo ... Filter.watch_tokens and Filter.notify_user_*:
\* the filters switched on, and the filters that notify the author
FilterConfigs ==
    [enabled : {e \in SUBSET FilterNames : Cardinality(FilterNames \ e) <= 1},
     notify : SUBSET {"filter_zalgo", "filter_invites", "filter_domains"}]

\* channel ids: Channels.test, a channel of Filter.channel_whitelist, another
FilterChannelWhitelist == {3}
FilterChannelIds == {ChannelsTest, 2} \cup FilterChannelWhitelist

\* on_message_edit, lines 109-119: the time in microseconds between the
\* edit and the previous edit, or the creation of a message never edited
EditElapsed == {50, 100, 2000050}

\* relativedelta(...).microseconds: the microseconds field of the
\* difference, which leaves out its seconds and larger fields
Microseconds(elapsed) == elapsed % 1000000

\* delta of _filter_message: None for a new message, else the microseconds
\* on_message_edit computed; elapsed keeps the time the edit came after
Deltas ==
    {[some |-> FALSE, us |-> 0, elapsed |-> 0]}
        \cup {[some |-> TRUE, us |-> Microseconds(t), elapsed |-> t] :
                 t \in EditElapsed}

\* author: a member, a member with a role of Filter.role_whitelist, a bot;
\* gone: the message was already deleted, msg.delete() raises NotFound
FilterMessages ==
    {m \in [channel : FilterChannelIds,
            author : {"member", "whitelisted", "bot"},
            triggers : {t \in SUBSET FilterNames : Cardinality(t) <= 2},
            delta : Deltas,
            gone : BOOLEAN] :
        (m.channel # ChannelsTest \/ m.author # "member")
            => /\ m.triggers \in {{}, {"filter_zalgo"}}
               /\ ~m.delta.some
               /\ ~m.gone}

FilterIdle ==
    [pc |-> "idle", msg |-> None, idx |-> 0, evaluated |-> <<>>,
     triggered |-> "", deletes |-> 0, notified |-> 0, outcome |-> ""]

FilterOff ==
    /\ filter_config = [enabled |-> {}, notify |-> {}]
    /\ filter_run = FilterIdle

FilterInit ==
    /\ filter_config \in FilterConfigs
    /\ filter_run = FilterIdle

\* lines 130-138: the message is filtered if its channel is not
\* whitelisted, its author has no whitelisted role and is not a bot, and
\* (lines 137-138, under no condition) its channel is Channels.test
FilterMessage(msg) ==
    /\ msg.channel \notin FilterChannelWhitelist
    /\ msg.author # "whitelisted"
    /\ msg.author # "bot"
    /\ msg.channel = ChannelsTest

\* _filter_message is entered for a message: lines 121-141
FilterBegin ==
    /\ filter_run.pc = "idle"
    /\ \E msg \in FilterMessages :
         filter_run' =
             IF FilterMessage(msg)
             THEN [filter_run EXCEPT !.pc = "loop", !.msg = msg, !.idx = 1]
             ELSE [filter_run EXCEPT !.pc = "done", !.msg = msg,
                                     !.outcome = "returned"]
    /\ UNCHANGED <<filter_config, token_call,
                   antispamVars, ctxVars, modlogVars, schedVars, verifVars, callVars, punishVars, cleanVars>>

\* the loop goes on to the next entry, or ends after the last one
FilterAdvance(run) ==
    IF run.idx = Len(Filters)
    THEN [run EXCEPT !.pc = "done", !.outcome = "returned"]
    ELSE [run EXCEPT !.idx = @ + 1]

\* One iteration of the loop over self.filters: lines 142-158.
FilterEval ==
    LET _filter == Filters[filter_run.idx]
        msg == filter_run.msg
    IN /\ filter_run.pc = "loop"
       /\ filter_run' =
            IF _filter.name \notin filter_config.enabled
            THEN FilterAdvance(filter_run)
            ELSE IF /\ _filter.name = "watch_rich_embeds"
                    /\ msg.delta.some /\ msg.delta.us < 100
            THEN FilterAdvance(filter_run)
            ELSE IF "content_only" \notin _filter.keys
            THEN [filter_run EXCEPT !.pc = "done", !.outcome = "KeyError"]
            ELSE LET called == [filter_run EXCEPT
                                    !.evaluated = Append(@, _filter.name)]
                 IN IF _filter.name \in msg.triggers
                    THEN [called EXCEPT !.triggered = _filter.name,
                              !.pc = IF _filter.type = "filter"
                                     THEN "delete" ELSE "log"]
                    ELSE FilterAdvance(called)
       /\ UNCHANGED <<filter_config, token_call,
                      antispamVars, ctxVars, modlogVars, schedVars, verifVars, callVars, punishVars, cleanVars>>

\* msg.delete() without the except clause: NotFound leaves the handler
FilterDeleteUncaught ==
    LET _filter == Filters[filter_run.idx] IN
    /\ filter_run.pc = "delete"
    /\ filter_run' =
         IF filter_run.msg.gone
         THEN [filter_run EXCEPT !.pc = "done", !.outcome = "NotFound"]
         ELSE [filter_run EXCEPT !.deletes = @ + 1,
                   !.pc = IF _filter.name \in filter_config.notify
                          THEN "notify" ELSE "log"]
    /\ UNCHANGED <<filter_config, token_call,
                   antispamVars, ctxVars, modlogVars, schedVars, verifVars, callVars, punishVars, cleanVars>>

\* lines 160-167: msg.delete(); NotFound ends the handler
FilterDelete ==
    LET _filter == Filters[filter_run.idx] IN
    /\ filter_run.pc = "delete"
    /\ filter_run' =
         IF filter_run.msg.gone
         THEN [filter_run EXCEPT !.pc = "done", !.outcome = "returned"]
         ELSE [filter_run EXCEPT !.deletes = @ + 1,
                   !.pc = IF _filter.name \in filter_config.notify
                          THEN "notify" ELSE "log"]
    /\ UNCHANGED <<filter_config, token_call,
                   antispamVars, ctxVars, modlogVars, schedVars, verifVars, callVars, punishVars, cleanVars>>

\* line 168: notify_member(msg.author, _filter["notification_msg"], ...)
FilterNotify ==
    LET _filter == Filters[filter_run.idx] IN
    /\ filter_run.pc = "notify"
    /\ filter_run' =
         IF "notification_msg" \notin _filter.keys
         THEN [filter_run EXCEPT !.pc = "done", !.outcome = "KeyError"]
         ELSE [filter_run EXCEPT !.notified = @ + 1, !.pc = "log"]
    /\ UNCHANGED <<filter_config, token_call,
                   antispamVars, ctxVars, modlogVars, schedVars, verifVars, callVars, punishVars, cleanVars>>

\* lines 170-216: the log text is built and send_log_message is called.
\* The arguments are evaluated before the call: line 213 reads the name
\* addtional_embeds, which is bound nowhere (line 184 binds
\* additional_embeds), and raises NameError; the call is not made and the
\* break of line 216 is not reached.
FilterLog ==
    /\ filter_run.pc = "log"
    /\ filter_run' = [filter_run EXCEPT !.pc = "done", !.outcome = "NameError"]
    /\ UNCHANGED <<filter_config, token_call,
                   antispamVars, ctxVars, modlogVars, schedVars, verifVars, callVars, punishVars, cleanVars>>

NextFilter ==
    \/ FilterBegin
    \/ FilterEval
    \/ FilterDelete
    \/ FilterNotify
    \/ FilterLog

----------------------------------------------------------------------------
(* Filtering._has_watchlist_tokens, lines 230-241.                         *)
(* A text is a sequence of words; a word is a URL (what URL_RE matches) or *)
(* not, and holds the watchlist tokens that occur in it.  A token pattern  *)
(* is searched in the whole text, words that are URLs included.            *)
(***************************************************************************)
MaxWords == 2      \* words of a text

TOKEN_WATCHLIST_PATTERNS == <<"p1", "p2">>

TokenPatterns == {TOKEN_WATCHLIST_PATTERNS[i] : i \in 1..Len(TOKEN_WATCHLIST_PATTERNS)}

Words == [url : BOOLEAN, tokens : SUBSET TokenPatterns]

Texts == SeqsUpTo(Words, MaxWords)

\* regex_pattern.search(text)
PatternSearch(pattern, text) == \E i \in 1..Len(text) : pattern \in text[i].tokens

\* URL_RE.search(text)
UrlSearch(text) == \E i \in 1..Len(text) : text[i].url

RECURSIVE HasWatchlistTokensFrom(_, _)
\* the loop of lines 237-241 from pattern i on; the function has no return
\* after the loop, so it returns None
HasWatchlistTokensFrom(text, i) ==
    IF i > Len(TOKEN_WATCHLIST_PATTERNS)
    THEN "None"
    ELSE IF PatternSearch(TOKEN_WATCHLIST_PATTERNS[i], text) /\ ~UrlSearch(text)
    THEN "True"
    ELSE HasWatchlistTokensFrom(text, i + 1)

HasWatchlistTokens(text) == HasWatchlistTokensFrom(text, 1)

TokenIdle == token_call = [pc |-> "idle", text |-> <<>>, result |-> ""]

TokenInit ==
    token_call \in [pc : {"idle"}, text : Texts, result : {""}]

CallHasWatchlistTokens ==
    /\ token_call.pc = "idle"
    /\ token_call' = [token_call EXCEPT
                          !.pc = "returned",
                          !.result = HasWatchlistTokens(token_call.text)]
    /\ UNCHANGED <<filter_config, filter_run,
                   antispamVars, ctxVars, modlogVars, schedVars, verifVars, callVars, punishVars, cleanVars>>

NextTokens == CallHasWatchlistTokens

----------------------------------------------------------------------------
(* Verification: src/bot/cogs/verification/verification.py.                *)
(* One handler of the cog, the listener on_message or the command accept,  *)
(* runs for one message.  gone records that the message was already        *)
(* deleted when the handler deleted it (the platform answers NotFound).    *)

\* the message the handler is given
VerifMessageId == 1

\* what on_message is given: a message of a bot; an invocation of accept;
\* a message of another channel; and, in the verification channel, a
\* message of a verified member or of an unverified one
OnMessageKinds == {"bot", "accept", "elsewhere", "verified", "unverified"}

NoVerification ==
    [pc |-> "idle", handler |-> "", kind |-> "", welcomed |-> FALSE,
     deletes |-> 0, gone |-> FALSE, outcome |-> ""]

VerifIdle == verification = NoVerification

\* Verification.on_message, lines 36-41: up to the await of get_context
VerifOnMessage ==
    /\ verification.pc = "idle"
    /\ \E kind \in OnMessageKinds :
         verification' =
             IF kind = "bot"
             THEN [verification EXCEPT !.handler = "on_message", !.kind = kind,
                       !.pc = "done", !.outcome = "returned"]
             ELSE [verification EXCEPT !.handler = "on_message", !.kind = kind,
                       !.pc = "get_context"]
    /\ UNCHANGED <<antispamVars, ctxVars, modlogVars, schedVars, filterVars, callVars, punishVars, cleanVars>>

\* Verification.on_message, lines 43-59: up to the await of ctx.send
VerifOnMessageContext ==
    /\ verification.handler = "on_message" /\ verification.pc = "get_context"
    /\ verification' =
         IF verification.kind = "unverified"
         THEN [verification EXCEPT !.pc = "send"]
         ELSE [verification EXCEPT !.pc = "done", !.outcome = "returned"]
    /\ UNCHANGED <<antispamVars, ctxVars, modlogVars, schedVars, filterVars, callVars, punishVars, cleanVars>>

\* Verification.on_message, lines 55-64: ctx.send completes, up to the
\* await of ctx.message.delete()
VerifOnMessageSend ==
    /\ verification.handler = "on_message" /\ verification.pc = "send"
    /\ verification' = [verification EXCEPT !.pc = "delete"]
    /\ UNCHANGED <<antispamVars, ctxVars, modlogVars, schedVars, filterVars, callVars, punishVars, cleanVars>>

\* Verification.on_message, lines 63-66: the deletion completes, or
\* raises NotFound, which the handler catches
VerifOnMessageDelete ==
    /\ verification.handler = "on_message" /\ verification.pc = "delete"
    /\ \E gone \in BOOLEAN :
         verification' =
             [verification EXCEPT !.pc = "done", !.outcome = "returned",
                  !.gone = gone,
                  !.deletes = IF gone THEN @ ELSE @ + 1]
    /\ UNCHANGED <<antispamVars, ctxVars, modlogVars, schedVars, filterVars, callVars, punishVars, cleanVars>>

\* Verification.accept_command, lines 68-75, invoked by an unverified
\* member in the verification channel: up to the await of add_roles
AcceptCommand ==
    /\ verification.pc = "idle"
    /\ verification' = [verification EXCEPT !.handler = "accept_command",
                            !.kind = "accept", !.pc = "add_roles"]
    /\ UNCHANGED <<antispamVars, ctxVars, modlogVars, schedVars, filterVars, callVars, punishVars, cleanVars>>

\* Verification.accept_command, lines 75-78: add_roles completes, up to
\* the await of ctx.author.send
AcceptAddRoles ==
    /\ verification.handler = "accept_command" /\ verification.pc = "add_roles"
    /\ verification' = [verification EXCEPT !.pc = "welcome"]
    /\ UNCHANGED <<antispamVars, ctxVars, modlogVars, schedVars, filterVars, callVars, punishVars, cleanVars>>

\* Verification.accept_command, lines 77-88: the welcome message is sent
\* or the send fails (any Exception is caught); the message id is put in
\* the ignore registry; up to the await of ctx.message.delete()
AcceptWelcome ==
    /\ verification.handler = "accept_command" /\ verification.pc = "welcome"
    /\ \E sent \in BOOLEAN :
         verification' = [verification EXCEPT !.welcomed = sent, !.pc = "delete"]
    /\ ignored' = [ignored EXCEPT
           !["message_delete"] = IgnoreItems(@, <<VerifMessageId>>, 1)]
    /\ UNCHANGED <<cached_deletes, cached_edits, events, audit,
                   antispamVars, ctxVars, schedVars, filterVars, callVars, punishVars, cleanVars>>

\* Verification.accept_command, lines 85-90: the deletion completes, or
\* raises NotFound, which the handler catches
AcceptDelete ==
    /\ verification.handler = "accept_command" /\ verification.pc = "delete"
    /\ \E gone \in BOOLEAN :
         verification' =
             [verification EXCEPT !.pc = "done", !.outcome = "returned",
                  !.gone = gone,
                  !.deletes = IF gone THEN @ ELSE @ + 1]
    /\ UNCHANGED <<antispamVars, ctxVars, modlogVars, schedVars, filterVars, callVars, punishVars, cleanVars>>

NextVerification ==
    \/ VerifOnMessage
    \/ VerifOnMessageContext
    \/ VerifOnMessageSend
    \/ VerifOnMessageDelete
    \/ AcceptCommand
    \/ AcceptAddRoles
    \/ AcceptWelcome
    \/ AcceptDelete

----------------------------------------------------------------------------
(* ModLog.send_log_message, modlog.py lines 43-88, called with keyword     *)
(* arguments of its signature.  log_call holds the arguments of one call,  *)
(* its outcome and the messages it sent to the channel, in order.  A text  *)
(* argument is a string, "None" when it is not given; a message is its     *)
(* lines of content and its embed.                                         *)

\* truth value of a text argument: None and the empty string are false
Truthy(text) == text \notin {"None", ""}

ContentLines(content) == IF Truthy(content) THEN <<content>> ELSE <<>>

LogContents == {"None", "", "report"}
IntroLines == {"None", "intro"}
EmbedLists ==
    {[none |-> TRUE, embeds |-> <<>>]}
        \cup {[none |-> FALSE, embeds |-> es] :
                 es \in {<<>>, <<"e1">>, <<"e1", "e2">>, <<"e2", "e1">>}}

LogCalls ==
    [pc : {"called"}, ping_everyone : BOOLEAN, content : LogContents,
     additional_embeds : EmbedLists, additional_embeds_msg : IntroLines,
     thumbnail : BOOLEAN, outcome : {"none"}, sent : {<<>>}]

NoLogCall ==
    [pc |-> "idle", ping_everyone |-> FALSE, content |-> "None",
     additional_embeds |-> [none |-> TRUE, embeds |-> <<>>],
     additional_embeds_msg |-> "None", thumbnail |-> FALSE,
     outcome |-> "none", sent |-> <<>>]

SendLogIdle == log_call = NoLogCall /\ re_registered = None
SendLogInit == log_call \in LogCalls /\ re_registered = None

\* the keywords of the call
LogKeywords(call) ==
    {"icon_url", "colour", "title", "ping_everyone", "content",
     "additional_embeds", "additional_embeds_msg"}
        \cup (IF call.thumbnail THEN {"thumbnail"} ELSE {})

\* lines 73-77: the content of the primary message
PrimaryContent(call) ==
    IF call.ping_everyone
    THEN <<"@everyone">> \o ContentLines(call.content)
    ELSE ContentLines(call.content)

\* lines 79-86: the messages sent, in order
Deliveries(call) ==
    LET embeds == call.additional_embeds.embeds
    IN <<[content |-> PrimaryContent(call), embed |-> "log"]>>
         \o (IF embeds # <<>>
             THEN (IF Truthy(call.additional_embeds_msg)
                   THEN <<[content |-> <<call.additional_embeds_msg>>,
                           embed |-> "None"]>>
                   ELSE <<>>)
                  \o [i \in 1..Len(embeds) |->
                         [content |-> <<>>, embed |-> embeds[i]]]
             ELSE <<>>)

\* the call: line 59 is reached before the first send
SendLogMessageCall ==
    LET status == SendLogMessage(0, LogKeywords(log_call))
    IN /\ log_call.pc = "called"
       /\ log_call' =
            [log_call EXCEPT !.pc = "done", !.outcome = status,
                 !.sent = IF status = "sent" THEN Deliveries(log_call)
                          ELSE <<>>]
       /\ UNCHANGED <<re_registered, antispamVars, ctxVars, modlogVars, schedVars, filterVars, verifVars, punishVars, cleanVars>>

NextSendLog == SendLogMessageCall


----------------------------------------------------------------------------
(* AntiSpam.punish, antispam.py lines 188-203.  Each call is a task of the *)
(* loop; member_roles is the set of members who hold the muted role.  The  *)
(* command tempmute is not part of the sources at hand: invoking it gives  *)
(* the member the muted role.                                              *)

MaxPunish == 2     \* punish calls in flight

PunishIds == 1..MaxPunish
PunishMembers == {1, 2}

\* held: the result of the test of line 190
NoPunish ==
    [pc |-> "idle", member |-> 0, held |-> FALSE, invoked |-> 0,
     outcome |-> ""]

PunishIdle ==
    /\ punishments = [p \in PunishIds |-> NoPunish]
    /\ member_roles = {}

PunishInit ==
    /\ punishments = [p \in PunishIds |-> NoPunish]
    /\ member_roles \in SUBSET PunishMembers

\* the command tempmute applied to the member
TempMute(roles, member) == roles \cup {member}

\* punish entered without the test of line 190
PunishUntested(p) ==
    /\ punishments[p].pc = "idle"
    /\ \E member \in PunishMembers :
         punishments' = [punishments EXCEPT ![p] =
             [@ EXCEPT !.member = member,
                       !.held = member \in member_roles,
                       !.pc = "get_context"]]
    /\ UNCHANGED <<member_roles, antispamVars, ctxVars, modlogVars, schedVars, filterVars, verifVars, callVars, cleanVars>>

\* lines 188-193: the test of member.roles, up to await get_context
Punish(p) ==
    /\ punishments[p].pc = "idle"
    /\ \E member \in PunishMembers :
         punishments' = [punishments EXCEPT ![p] =
             IF member \in member_roles
             THEN [@ EXCEPT !.member = member, !.held = TRUE,
                            !.pc = "done", !.outcome = "returned"]
             ELSE [@ EXCEPT !.member = member, !.held = FALSE,
                            !.pc = "get_context"]]
    /\ UNCHANGED <<member_roles, antispamVars, ctxVars, modlogVars, schedVars, filterVars, verifVars, callVars, cleanVars>>

\* lines 193-197: get_context returned, up to await convert
PunishGetContext(p) ==
    /\ punishments[p].pc = "get_context"
    /\ punishments' = [punishments EXCEPT ![p].pc = "convert"]
    /\ UNCHANGED <<member_roles, antispamVars, ctxVars, modlogVars, schedVars, filterVars, verifVars, callVars, cleanVars>>

\* lines 197-203: convert returned, up to await context.invoke
PunishConvert(p) ==
    /\ punishments[p].pc = "convert"
    /\ punishments' = [punishments EXCEPT ![p].pc = "invoke"]
    /\ UNCHANGED <<member_roles, antispamVars, ctxVars, modlogVars, schedVars, filterVars, verifVars, callVars, cleanVars>>

\* lines 198-203: the command ran and punish returns
PunishInvoke(p) ==
    /\ punishments[p].pc = "invoke"
    /\ member_roles' = TempMute(member_roles, punishments[p].member)
    /\ punishments' = [punishments EXCEPT ![p] =
           [@ EXCEPT !.invoked = @ + 1, !.pc = "done",
                     !.outcome = "returned"]]
    /\ UNCHANGED <<antispamVars, ctxVars, modlogVars, schedVars, filterVars, verifVars, callVars, cleanVars>>

NextPunish ==
    \/ \E p \in PunishIds : Punish(p)
    \/ \E p \in PunishIds : PunishGetContext(p)
    \/ \E p \in PunishIds : PunishConvert(p)
    \/ \E p \in PunishIds : PunishInvoke(p)

----------------------------------------------------------------------------
(* Clean: src/bot/cogs/clean/clean.py.  The clean commands call            *)
(* _clean_messages, here with no predicate (clean all); clean_cancel       *)
(* resets the flag.  clean_channel is the channel the commands are given   *)
(* in: its messages, oldest first, the last id given out, and the numbers  *)
(* of cancel commands and of other messages that arrived.  clean_deleted   *)
(* holds the deletion requests of the cleans, each with whether the id was *)
(* in the ignore registry when the request was made.                       *)

MaxCleans == 2     \* clean commands given
MaxCancels == 1    \* clean_cancel commands given
MaxArrivals == 1   \* other messages that arrive in the channel

\* CleanMessages.message_limit, a value of the configuration
MessageLimit == 2

CleanIds == 1..MaxCleans
CleanAmounts == 1..(MessageLimit + 1)

NoClean ==
    [pc |-> "idle", amount |-> 0, invocation |-> 0, first |-> 0,
     rest |-> <<>>, message_ids |-> <<>>, outcome |-> ""]

\* the state without any clean: no channel
CleanIdle ==
    /\ cleaning = FALSE
    /\ cleans = [i \in CleanIds |-> NoClean]
    /\ clean_channel = [messages |-> <<>>, last |-> 0, cancels |-> 0, arrivals |-> 0]
    /\ clean_deleted = {}

\* Clean.__init__, lines 28-30, and a channel that holds two messages
CleanInit ==
    /\ cleaning = FALSE
    /\ cleans = [i \in CleanIds |-> NoClean]
    /\ clean_channel = [messages |-> <<1, 2>>, last |-> 2, cancels |-> 0, arrivals |-> 0]
    /\ clean_deleted = {}

\* channel.history(limit=n): the newest n messages, newest first
History(messages, n) ==
    [k \in 1..Min(n, Len(messages)) |-> messages[Len(messages) + 1 - k]]

Ids(list) == {list[k] : k \in 1..Len(list)}

Without(messages, ids) == SelectSeq(messages, LAMBDA m : m \notin ids)

\* ctx.send, or a message of a user: the channel gets n new messages
Sent(channel, n) ==
    [channel EXCEPT !.last = @ + n,
         !.messages = @ \o [k \in 1..n |-> channel.last + k]]

\* the requests to delete the messages ids, made by clean i
Requests(i, ids, registry) ==
    {[id |-> m, by |-> i, registered |-> Contains(registry, m)] : m \in ids}

\* A clean command is given: its message arrives and _clean_messages runs
\* lines 77-112, up to the first fetch of channel.history
CleanCommand(i) ==
    /\ cleans[i].pc = "idle"
    /\ \A j \in 1..(i - 1) : cleans[j].pc # "idle"
    /\ \E amount \in CleanAmounts :
         LET invocation == clean_channel.last + 1
             call == [cleans[i] EXCEPT !.amount = amount,
                                       !.invocation = invocation]
         IN IF amount > MessageLimit
            THEN /\ cleans' = [cleans EXCEPT ![i] =
                        [call EXCEPT !.pc = "done", !.outcome = "too_many"]]
                 /\ clean_channel' = Sent(clean_channel, 2)
                 /\ UNCHANGED cleaning
            ELSE IF cleaning
            THEN /\ cleans' = [cleans EXCEPT ![i] =
                        [call EXCEPT !.pc = "done", !.outcome = "rejected"]]
                 /\ clean_channel' = Sent(clean_channel, 2)
                 /\ UNCHANGED cleaning
            ELSE /\ cleans' = [cleans EXCEPT ![i] =
                        [call EXCEPT !.pc = "history"]]
                 /\ clean_channel' = Sent(clean_channel, 1)
                 /\ cleaning' = TRUE
    /\ UNCHANGED <<clean_deleted, antispamVars, ctxVars, modlogVars, schedVars, filterVars, verifVars, callVars, punishVars>>

\* lines 115-125: the fetch of channel.history returns or raises; the first
\* iteration of the loop, up to await message.delete()
CleanHistory(i) ==
    LET call == cleans[i]
        fetched == History(clean_channel.messages, call.amount + 1)
    IN /\ call.pc = "history"
       /\ \E ok \in BOOLEAN :
            IF ~ok
            THEN /\ cleans' = [cleans EXCEPT ![i] =
                        [call EXCEPT !.pc = "done", !.outcome = "HTTPException"]]
                 /\ UNCHANGED <<cleaning, ignored, clean_deleted>>
            ELSE IF fetched = <<>>
            THEN /\ cleans' = [cleans EXCEPT ![i] = [call EXCEPT !.pc = "purge"]]
                 /\ cleaning' = FALSE
                 /\ UNCHANGED <<ignored, clean_deleted>>
            ELSE IF ~cleaning
            THEN /\ cleans' = [cleans EXCEPT ![i] =
                        [call EXCEPT !.pc = "done", !.outcome = "cancelled"]]
                 /\ UNCHANGED <<cleaning, ignored, clean_deleted>>
            ELSE /\ ignored' = [ignored EXCEPT !["message_delete"] =
                        IgnoreItems(@, <<Head(fetched)>>, 1)]
                 /\ clean_deleted' = clean_deleted \cup
                        Requests(i, {Head(fetched)}, ignored'["message_delete"])
                 /\ cleans' = [cleans EXCEPT ![i] =
                        [call EXCEPT !.pc = "delete", !.first = Head(fetched),
                                     !.rest = Tail(fetched)]]
                 /\ UNCHANGED cleaning
       /\ UNCHANGED <<clean_channel, cached_deletes, cached_edits, events, audit,
                      antispamVars, ctxVars, schedVars, filterVars, verifVars, callVars, punishVars>>

\* lines 125-139: message.delete() returns, or raises NotFound for a
\* message that is gone; the other iterations of the loop, which do not
\* suspend; the flag is reset and the ids are registered, up to await purge
CleanDelete(i) ==
    LET call == cleans[i]
    IN /\ call.pc = "delete"
       /\ IF call.first \notin Ids(clean_channel.messages)
          THEN /\ cleans' = [cleans EXCEPT ![i] =
                      [call EXCEPT !.pc = "done", !.outcome = "NotFound"]]
               /\ UNCHANGED <<cleaning, ignored, clean_channel>>
          ELSE /\ clean_channel' = [clean_channel EXCEPT
                      !.messages = Without(@, {call.first})]
               /\ IF call.rest # <<>> /\ ~cleaning
                  THEN /\ cleans' = [cleans EXCEPT ![i] =
                              [call EXCEPT !.pc = "done", !.outcome = "cancelled"]]
                       /\ UNCHANGED <<cleaning, ignored>>
                  ELSE /\ cleans' = [cleans EXCEPT ![i] =
                              [call EXCEPT !.pc = "purge",
                                           !.message_ids = call.rest]]
                       /\ cleaning' = FALSE
                       /\ ignored' = [ignored EXCEPT !["message_delete"] =
                              IgnoreItems(@, call.rest, 1)]
       /\ UNCHANGED <<clean_deleted, cached_deletes, cached_edits, events, audit,
                      antispamVars, ctxVars, schedVars, filterVars, verifVars, callVars, punishVars>>

\* lines 139-156: purge deletes the newest amount messages the channel
\* holds now; then upload_log, which ModLog does not have, or the notice
\* that nothing matched
CleanPurge(i) ==
    LET call == cleans[i]
        purged == Ids(History(clean_channel.messages, call.amount))
        after == [clean_channel EXCEPT !.messages = Without(@, purged)]
    IN /\ call.pc = "purge"
       /\ clean_deleted' = clean_deleted \cup
              Requests(i, purged, ignored["message_delete"])
       /\ IF call.message_ids # <<>>
          THEN /\ cleans' = [cleans EXCEPT ![i] =
                      [call EXCEPT !.pc = "done", !.outcome = "AttributeError"]]
               /\ clean_channel' = after
          ELSE /\ cleans' = [cleans EXCEPT ![i] =
                      [call EXCEPT !.pc = "done", !.outcome = "nothing"]]
               /\ clean_channel' = Sent(after, 1)
       /\ UNCHANGED <<cleaning, antispamVars, ctxVars, modlogVars, schedVars, filterVars, verifVars, callVars, punishVars>>

\* clean_cancel, lines 207-218: its message arrives, the flag is reset and
\* the notice is sent
CleanCancel ==
    /\ clean_channel.cancels < MaxCancels
    /\ cleaning' = FALSE
    /\ clean_channel' = [Sent(clean_channel, 2) EXCEPT !.cancels = @ + 1]
    /\ UNCHANGED <<cleans, clean_deleted, antispamVars, ctxVars, modlogVars, schedVars, filterVars, verifVars, callVars, punishVars>>

\* a member posts a message in the channel
NewMessage ==
    /\ clean_channel.arrivals < MaxArrivals
    /\ clean_channel' = [Sent(clean_channel, 1) EXCEPT !.arrivals = @ + 1]
    /\ UNCHANGED <<cleaning, cleans, clean_deleted, antispamVars, ctxVars, modlogVars, schedVars, filterVars, verifVars, callVars, punishVars>>

NextClean ==
    \/ \E i \in CleanIds : CleanCommand(i)
    \/ \E i \in CleanIds : CleanHistory(i)
    \/ \E i \in CleanIds : CleanDelete(i)
    \/ \E i \in CleanIds : CleanPurge(i)
    \/ CleanCancel
    \/ NewMessage

----------------------------------------------------------------------------
(* Specifications *)

\* the rule engine
Init == AntiSpamInit /\ CtxIdle /\ ModLogInit /\ SchedIdle /\ FilterOff /\ TokenIdle /\ VerifIdle /\ SendLogIdle /\ PunishIdle /\ CleanIdle
Next == NextAntiSpam
Spec == Init /\ [][Next]_vars

\* the rule engine from the construction of the cog
InitStartup == AntiSpamConstructed /\ CtxIdle /\ ModLogInit /\ SchedIdle /\ FilterOff /\ TokenIdle /\ VerifIdle /\ SendLogIdle /\ PunishIdle /\ CleanIdle
NextStartup == AlertOnValidationError \/ NextAntiSpam
SpecStartup == InitStartup /\ [][NextStartup]_vars

\* one DeletionContext
InitCtx == AntiSpamInit /\ CtxInit /\ ModLogInit /\ SchedIdle /\ FilterOff /\ TokenIdle /\ VerifIdle /\ SendLogIdle /\ PunishIdle /\ CleanIdle
SpecCtx == InitCtx /\ [][NextCtx]_vars

\* the audit log
SpecModLog == Init /\ [][NextModLog]_vars

\* the audit log, deletions and leaving members alone
NextDeletes ==
    \/ Ignore
    \/ DeliverDelete
    \/ OnMemberLeave
    \/ \E e \in 1..Len(events) : OnMessageDelete(e)
    \/ \E e \in 1..Len(events) : OnRawMessageDelete(e)
    \/ \E e \in 1..Len(events) : OnRawMessageDeleteWake(e)
SpecDeletes == Init /\ [][NextDeletes]_vars

\* the ignore registry: the calls of ignore and the listeners that consume
NextRegistry ==
    \/ IgnoreCall
    \/ DeliverDelete
    \/ OnMemberLeave
    \/ \E e \in 1..Len(events) : OnMessageDelete(e)
    \/ \E e \in 1..Len(events) : OnRawMessageDelete(e)
    \/ \E e \in 1..Len(events) : OnRawMessageDeleteWake(e)
SpecRegistry == Init /\ [][NextRegistry]_vars

\* the scheduler
InitSched == AntiSpamInit /\ CtxIdle /\ ModLogInit /\ SchedInit /\ FilterOff /\ TokenIdle /\ VerifIdle /\ SendLogIdle /\ PunishIdle /\ CleanIdle
SpecSched == InitSched /\ [][NextSched]_vars

\* the content filters
InitFilter == AntiSpamInit /\ CtxIdle /\ ModLogInit /\ SchedIdle /\ FilterInit /\ TokenIdle /\ VerifIdle /\ SendLogIdle /\ PunishIdle /\ CleanIdle
SpecFilter == InitFilter /\ [][NextFilter]_vars

\* the handlers that delete the message they were given: _filter_message
\* and the handlers of Verification, for the same or for different messages
NextGone == NextFilter \/ NextVerification
SpecGone == InitFilter /\ [][NextGone]_vars

\* the punish calls
InitPunish == AntiSpamInit /\ CtxIdle /\ ModLogInit /\ SchedIdle /\ FilterOff /\ TokenIdle /\ VerifIdle /\ SendLogIdle /\ PunishInit /\ CleanIdle
SpecPunish == InitPunish /\ [][NextPunish]_vars

\* the clean commands
InitClean == AntiSpamInit /\ CtxIdle /\ ModLogInit /\ SchedIdle /\ FilterOff /\ TokenIdle /\ VerifIdle /\ SendLogIdle /\ PunishIdle /\ CleanInit
SpecClean == InitClean /\ [][NextClean]_vars

\* one call of send_log_message
InitSendLog == AntiSpamInit /\ CtxIdle /\ ModLogInit /\ SchedIdle /\ FilterOff /\ TokenIdle /\ VerifIdle /\ SendLogInit /\ PunishIdle /\ CleanIdle
SpecSendLog == InitSendLog /\ [][NextSendLog]_vars

\* _has_watchlist_tokens
InitTokens == AntiSpamInit /\ CtxIdle /\ ModLogInit /\ SchedIdle /\ FilterOff /\ TokenInit /\ VerifIdle /\ SendLogIdle /\ PunishIdle /\ CleanIdle
SpecTokens == InitTokens /\ [][NextTokens]_vars

----------------------------------------------------------------------------
(* Properties of the rule engine (Spec) *)

Done(h) == handlers[h].pc = "done" /\ Eligible(handlers[h].msg)

\* what the rule function returns for the handler's message and pool
ResultOf(hd, i) ==
    RuleFunction(hd.msg, MessagesForRule(hd.relevant, RuleOrder[i]), RuleOrder[i])

MatchingRules(hd) == {i \in 1..Len(RuleOrder) : ResultOf(hd, i) # None}

FirstMatch(hd) ==
    CHOOSE i \in MatchingRules(hd) : \A j \in MatchingRules(hd) : i <= j

PunishTask(message, member, rule_name) ==
    [kind |-> "punish", msg |-> message.id, member |-> member, rule |-> rule_name]

DrainTask(channel) ==
    [kind |-> "drain", msg |-> 0, member |-> channel, rule |-> ""]

DeletionRequest(message, ids) ==
    [msg |-> message.id, channel |-> message.channel, messages |-> ids]

\* C1: when two or more rules would return a result for a message, the
\* rule declared first among them, and only that rule, produces the
\* effects: its name is merged into the channel's context, one punishment
\* task exists per offending member, the offending messages are requested
\* for deletion, and no rule after it is evaluated.
C1_FirstMatchOnly ==
    \A h \in HandlerIds :
        LET hd == handlers[h] IN
        (Done(h) /\ Cardinality(MatchingRules(hd)) >= 2) =>
            LET first == FirstMatch(hd)
                res == ResultOf(hd, first)
            IN /\ hd.evaluated = 1..first
               /\ message_deletion_queue[hd.msg.channel].present
               /\ RuleOrder[first] \in message_deletion_queue[hd.msg.channel].rules
               /\ {t \in tasks : t.kind = "punish" /\ t.msg = hd.msg.id}
                    = {PunishTask(hd.msg, m, RuleOrder[first]) : m \in res.members}
               /\ \E i \in 1..Len(deletions) :
                      deletions[i] = DeletionRequest(hd.msg, res.messages)

\* C2: two violations in the same channel, none drained yet, are held by
\* the one context of that channel.
C2_OneContextPerChannel ==
    \A h1, h2 \in HandlerIds :
        (/\ h1 # h2
         /\ Done(h1) /\ Done(h2)
         /\ handlers[h1].matched # "" /\ handlers[h2].matched # ""
         /\ handlers[h1].msg.channel = handlers[h2].msg.channel)
        => LET c == message_deletion_queue[handlers[h1].msg.channel]
           IN /\ c.present
              /\ {handlers[h1].matched, handlers[h2].matched} \subseteq c.rules

AlertsFor(channel) ==
    {i \in 1..Len(audit) : audit[i].path = "antispam" /\ audit[i].ev = channel}

\* C3: once a violation has been handled in a channel, either the channel's
\* context is live with its drain task scheduled, or it has been consumed:
\* one alert was sent and the entry removed.
C3_ContextDrainedOnce ==
    \A h \in HandlerIds :
        (Done(h) /\ handlers[h].matched # "") =>
            LET ch == handlers[h].msg.channel IN
            \/ /\ message_deletion_queue[ch].present
               /\ DrainTask(ch) \in tasks
            \/ /\ ~message_deletion_queue[ch].present
               /\ Cardinality(AlertsFor(ch)) >= 1

NoRuleMatches(hd) == MatchingRules(hd) = {}

\* C10: a step of on_message for a message for which no rule returns a
\* result changes neither message_deletion_queue nor the spawned tasks nor
\* the deletion requests, and the handler goes on to the next rule or
\* returns.
C10_NoMatchNoEffect ==
    [][\A h \in HandlerIds :
          (/\ handlers[h].pc = "rules"
           /\ handlers'[h] # handlers[h]
           /\ NoRuleMatches(handlers[h]))
          => /\ UNCHANGED <<message_deletion_queue, tasks, deletions>>
             /\ handlers'[h].matched = ""
             /\ handlers'[h].outcome \in {"", "returned"}]_vars

C10_Witness ==
    \E h \in HandlerIds :
        /\ Done(h)
        /\ NoRuleMatches(handlers[h])
        /\ handlers[h].evaluated = 1..Len(RuleOrder)
        /\ handlers[h].outcome = "returned"

\* C11: a handler that matched a rule has scheduled exactly one punishment
\* task for each offending member the rule returned, and has made exactly
\* one deletion request, which covers every offending message.
C11_PunishEachDeleteBatched ==
    \A h \in HandlerIds :
        LET hd == handlers[h] IN
        (Done(h) /\ hd.matched # "") =>
            LET res == ResultOf(hd, FirstMatch(hd)) IN
            /\ \A m \in res.members :
                   Cardinality({t \in tasks : /\ t.kind = "punish"
                                              /\ t.msg = hd.msg.id
                                              /\ t.member = m}) = 1
            /\ Cardinality({t \in tasks : t.kind = "punish" /\ t.msg = hd.msg.id})
                   = Cardinality(res.members)
            /\ Cardinality({i \in 1..Len(deletions) : deletions[i].msg = hd.msg.id}) = 1
            /\ \A i \in 1..Len(deletions) :
                   deletions[i].msg = hd.msg.id => deletions[i].messages = res.messages

Ineligible(message) ==
    message # None /\ message.elig \in {"bot", "whitelisted", "staff"}

\* C12: for a message of a bot author, of a whitelisted channel or of a
\* staff author, on_message fetches no history, evaluates no rule and has
\* no effect; and in restricted operating mode rules are evaluated only for
\* messages of the test channel.  on_message reads no operating mode, so
\* each of its runs is also a run in restricted mode.
C12_EligibilityAndTestChannel ==
    \A h \in HandlerIds :
        LET hd == handlers[h] IN
        /\ Ineligible(hd.msg) =>
              /\ hd.pc = "done" /\ hd.outcome = "returned"
              /\ hd.relevant = <<>> /\ hd.evaluated = {} /\ hd.matched = ""
              /\ \A t \in tasks : t.msg # hd.msg.id
              /\ \A i \in 1..Len(deletions) : deletions[i].msg # hd.msg.id
        /\ hd.evaluated # {} => hd.msg.channel = ChannelsTest

----------------------------------------------------------------------------
(* Properties of DeletionContext (SpecCtx) *)

\* C7: on a context created empty, after any sequence of add calls, rules
\* is the set of rule names passed, and members (messages) maps each id
\* passed to the member (message) object it was first passed with.
C7_AddFirstSeenWins ==
    ctx.pre = 0 =>
        /\ ctx.rules = adds.rules
        /\ Keys(ctx.members) = {i \in MemberIds : adds.first_member[i] # None}
        /\ \A i \in 1..Len(ctx.members) :
              ctx.members[i].v = AsMember(adds.first_member[ctx.members[i].k])
        /\ Keys(ctx.messages) = {i \in MessageIds : adds.first_message[i] # None}
        /\ \A i \in 1..Len(ctx.messages) :
              ctx.messages[i].v = adds.first_message[ctx.messages[i].k]

\* C8: upload_messages on a context with one or more messages never fails,
\* and the alert carries the content of the first message added.
C8_FirstMessageRepresentative ==
    (upload.status # "" /\ Len(ctx.messages) >= 1) =>
        /\ upload.status = "sent"
        /\ upload.text.src = ctx.messages[1].v

----------------------------------------------------------------------------
(* Properties of the audit log (SpecModLog) *)

EntriesFor(e) == {i \in 1..Len(audit) : audit[i].ev = e}

Emitting == {"sent", "NameError", "TypeError"}

\* a listener of the event went past the registry and the seen-list to
\* the emission of the audit entry
ReachedLog(e) == events[e].c \in Emitting \/ events[e].r \in Emitting

Suppressed(e) == events[e].c = "suppressed" \/ events[e].r = "suppressed"

\* C4: after an observation of an id was suppressed, that observation has
\* no audit entry, and a later observation of the same id under the same
\* kind that is not suppressed has its audit entry.
C4_IgnoreOneShot ==
    \A e1, e2 \in 1..Len(events) :
        (/\ e1 < e2
         /\ events[e1].kind = events[e2].kind
         /\ events[e1].id = events[e2].id
         /\ Suppressed(e1)
         /\ ReachedLog(e2))
        => /\ EntriesFor(e1) = {}
           /\ EntriesFor(e2) # {}

\* C5: a delete event whose id the cached handler recorded before the raw
\* handler woke up has exactly one audit entry, written by the cached path.
C5_CacheHitOneEntry ==
    \A e \in 1..Len(events) :
        (/\ events[e].kind = "delete"
         /\ events[e].c \in Emitting
         /\ events[e].r = "deduped")
        => /\ Cardinality(EntriesFor(e)) = 1
           /\ \A i \in EntriesFor(e) : audit[i].path = "cached"

\* C6: a delete event whose id was neither in the seen-list nor in the
\* ignore registry when the raw handler woke up has exactly one audit
\* entry written by the raw handler, in the degraded rendering.
C6_CacheMissDegradedEntry ==
    \A e \in 1..Len(events) :
        (events[e].kind = "delete" /\ events[e].r \in Emitting)
        => /\ Cardinality({i \in EntriesFor(e) : audit[i].path = "raw"}) = 1
           /\ \A i \in EntriesFor(e) :
                 audit[i].path = "raw" => audit[i].degraded

----------------------------------------------------------------------------
(* Properties of the scheduler (SpecSched) *)

Registered(task_id) == task_id \in DOMAIN scheduled_task

TasksOf(task_id) == {t \in 1..Len(loop_tasks) : loop_tasks[t].id = task_id}

\* C13: a schedule_task call for an id that is registered starts no task
\* and leaves every entry of scheduled_task, the one of the id included,
\* as it was.
C13_ScheduleRegisteredNoOp ==
    [][\A task_id \in TaskIds :
          (/\ sched_step'.op = "schedule_task"
           /\ sched_step'.id = task_id
           /\ Registered(task_id))
          => /\ loop_tasks' = loop_tasks
             /\ scheduled_task' = scheduled_task
             /\ sched_step'.result = "returned"]_vars

C13_Witness ==
    /\ sched_step.op = "schedule_task"
    /\ sched_step.result = "returned"
    /\ Registered(sched_step.id)
    /\ Cardinality(TasksOf(sched_step.id)) = 1

\* a task made for the id is running: created or started, and not done
Running(task_id) ==
    \E t \in TasksOf(task_id) : loop_tasks[t].state \in {"created", "running"}

\* C14: a schedule_task call for an id of which no task is running starts
\* a new task and records its handle, also when an earlier task of the id
\* returned or raised and was never cancelled.
C14_ScheduleStartsUnlessRunning ==
    [][\A task_id \in TaskIds :
          (/\ sched_step'.op = "schedule_task"
           /\ sched_step'.id = task_id
           /\ ~Running(task_id))
          => /\ loop_tasks' = Append(loop_tasks, loop_tasks'[Len(loop_tasks')])
             /\ loop_tasks'[Len(loop_tasks')].id = task_id
             /\ task_id \in DOMAIN scheduled_task'
             /\ scheduled_task'[task_id] = Len(loop_tasks')]_vars

\* C15: a cancel_task call for a registered id requests the cancellation
\* of the registered task, touches no other task, and removes the id and
\* nothing else from scheduled_task, so that the next schedule_task of the
\* id starts a task; for an id that is not registered the call logs a
\* warning and leaves scheduled_task and every task as they were.
C15_CancelRemovesOrWarns ==
    [][\A task_id \in TaskIds :
          /\ (sched_step'.op = "cancel_task" /\ sched_step'.id = task_id) =>
                IF Registered(task_id)
                THEN LET h == scheduled_task[task_id] IN
                     /\ sched_step'.result = "unscheduled"
                     /\ Len(loop_tasks') = Len(loop_tasks)
                     /\ \A t \in 1..Len(loop_tasks) :
                            t # h => loop_tasks'[t] = loop_tasks[t]
                     /\ loop_tasks'[h].state = loop_tasks[h].state
                     /\ loop_tasks[h].state \in {"created", "running"}
                            => loop_tasks'[h].cancelled
                     /\ DOMAIN scheduled_task' = DOMAIN scheduled_task \ {task_id}
                     /\ \A k \in DOMAIN scheduled_task' :
                            scheduled_task'[k] = scheduled_task[k]
                ELSE /\ sched_step'.result = "warning"
                     /\ loop_tasks' = loop_tasks
                     /\ scheduled_task' = scheduled_task
          /\ (/\ sched_step = [op |-> "cancel_task", id |-> task_id,
                               result |-> "unscheduled"]
              /\ sched_step'.op = "schedule_task"
              /\ sched_step'.id = task_id)
             => /\ sched_step'.result = "started"
                /\ Len(loop_tasks') = Len(loop_tasks) + 1]_vars

C15_Witness ==
    /\ sched_step.op = "schedule_task"
    /\ sched_step.result = "started"
    /\ \E t \in TasksOf(sched_step.id) :
           /\ loop_tasks[t].cancelled
           /\ t # scheduled_task[sched_step.id]

\* C16: the done callback of a task raises nothing, whether the task
\* returned, raised or was cancelled.
C16_CallbackRaisesNothing ==
    \A t \in 1..Len(loop_tasks) : loop_tasks[t].callback \in {"", "returned"}

\* the bodies of the id that have started and have not finished
LiveBodies(task_id) == {t \in TasksOf(task_id) : loop_tasks[t].state = "running"}

HandlesWellFormed ==
    \A task_id \in DOMAIN scheduled_task :
        /\ scheduled_task[task_id] \in 1..Len(loop_tasks)
        /\ loop_tasks[scheduled_task[task_id]].id = task_id

\* C17: at any time at most one body started for an id is live, and
\* scheduled_task maps an id to at most one handle, a task of that id.
C17_OneLiveBodyPerId ==
    /\ HandlesWellFormed
    /\ \A task_id \in TaskIds : Cardinality(LiveBodies(task_id)) <= 1

\* C17, amended: scheduled_task maps an id to at most one handle, a task
\* of that id, and every task of an id that is not done and on which
\* cancel() was not called is the task registered for the id: there is at
\* most one.  A task cancelled by cancel_task can stay live next to its
\* successor until its body ends.
C17_OneUncancelledTaskPerId ==
    /\ HandlesWellFormed
    /\ \A task_id \in TaskIds :
         \A t \in TasksOf(task_id) :
            (loop_tasks[t].state \in {"created", "running"} /\ ~loop_tasks[t].cancelled)
            => (Registered(task_id) /\ scheduled_task[task_id] = t)

C17_Witness ==
    \E task_id \in TaskIds :
        \E t1, t2 \in LiveBodies(task_id) :
            /\ t1 # t2
            /\ loop_tasks[t1].cancelled
            /\ ~loop_tasks[t2].cancelled
            /\ scheduled_task[task_id] = t2

----------------------------------------------------------------------------
(* Properties of the content filters (SpecFilter, SpecTokens) *)

\* _filter_message has ended for a message it filters
Filtered == filter_run.pc = "done" /\ filter_run.msg.channel = ChannelsTest
                /\ filter_run.msg.author = "member"

Debounced(msg) == msg.delta.some /\ msg.delta.us < 100

\* the entry is switched on and not skipped by the rich-embed debounce
Considered(f) ==
    /\ f.name \in filter_config.enabled
    /\ ~(f.name = "watch_rich_embeds" /\ Debounced(filter_run.msg))

Matching == {i \in 1..Len(Filters) :
                Considered(Filters[i]) /\ Filters[i].name \in filter_run.msg.triggers}

FirstMatching ==
    IF Matching = {} THEN Len(Filters)
    ELSE CHOOSE i \in Matching : \A j \in Matching : i <= j

\* the filters to evaluate: those considered, in table order, up to the
\* first that triggers
ExpectedEvaluated ==
    LET sel == SelectSeq(SubSeq(Filters, 1, FirstMatching), Considered)
    IN [i \in 1..Len(sel) |-> sel[i].name]

FilterAuditEntries == {i \in 1..Len(audit) : audit[i].path = "filtering"}

\* C18: for a filtered message the functions called are those of the
\* enabled filters, in table order (zalgo, invites, domains, rich embeds,
\* words, tokens), up to the first that triggers and none after it; there
\* is at most one deletion and at most one audit entry, and a deletion is
\* that of the first enabled filter that triggers.
C18_FirstMatchPolicy ==
    Filtered =>
        /\ filter_run.evaluated = ExpectedEvaluated
        /\ filter_run.deletes <= 1
        /\ Cardinality(FilterAuditEntries) <= 1
        /\ filter_run.deletes = 1 =>
               /\ Matching # {}
               /\ filter_run.triggered = Filters[FirstMatching].name

TriggeredType ==
    LET i == CHOOSE i \in 1..Len(Filters) : Filters[i].name = filter_run.triggered
    IN Filters[i].type

\* C19: when the handler has ended after a watchlist triggered, the message
\* was not deleted, the author was not notified and there is exactly one
\* audit entry; after a filter triggered, an audit entry is there only
\* once the deletion was made, and the author was notified only if the
\* filter's user_notification flag is set.
C19_CategorySemantics ==
    (Filtered /\ filter_run.triggered # "") =>
        /\ TriggeredType = "watchlist" =>
               /\ filter_run.deletes = 0
               /\ filter_run.notified = 0
               /\ Cardinality(FilterAuditEntries) = 1
        /\ TriggeredType = "filter" =>
               /\ FilterAuditEntries # {} => filter_run.deletes = 1
               /\ filter_run.notified > 0 =>
                      filter_run.triggered \in filter_config.notify

\* the token occurs in a word of the text that is not a URL
OccursOutsideUrl(pattern, text) ==
    \E i \in 1..Len(text) : ~text[i].url /\ pattern \in text[i].tokens

\* C20: _has_watchlist_tokens returns a true value exactly when a token of
\* the watchlist occurs outside every URL of the text: not when the tokens
\* occur only inside URLs, and also when the text holds a URL elsewhere.
C20_TokenOutsideUrlTriggers ==
    token_call.pc = "returned" =>
        (token_call.result = "True"
            <=> \E pattern \in TokenPatterns :
                    OccursOutsideUrl(pattern, token_call.text))

----------------------------------------------------------------------------
(* Properties of the tasks spawned by the rule engine (Spec) *)

Matched(h) == Done(h) /\ handlers[h].matched # ""

Offenders(hd) == ResultOf(hd, FirstMatch(hd)).members

\* C22: the punishment tasks and the drain task of a handled violation are
\* spawned with the completion hook _silent_exception, which swallows their
\* errors: for every handler that matched, one task per offending member
\* and the channel's drain task exist, and every spawned task carries the
\* hook.
C22_TasksCarrySilentHook ==
    /\ \A h \in HandlerIds :
          Matched(h) =>
              /\ \A m \in Offenders(handlers[h]) :
                     \E t \in tasks : /\ t.kind = "punish"
                                      /\ t.msg = handlers[h].msg.id
                                      /\ t.member = m
              /\ \E t \in tasks : /\ t.kind = "drain"
                                  /\ t.member = handlers[h].msg.channel
    /\ \A t \in tasks : TaskDoneCallback(t) = "_silent_exception"

\* the handlers that matched a rule for a message of the channel
MatchedIn(ch) == {h \in HandlerIds : Matched(h) /\ handlers[h].msg.channel = ch}

\* C24: two handlers of the same channel that both matched have each seen
\* the channel without a context and each created a context and a drain
\* task, so the channel has a context and a drain task.
C24_BothCreateContext ==
    \A ch \in ChannelIds :
        Cardinality(MatchedIn(ch)) >= 2 =>
            /\ message_deletion_queue[ch].present
            /\ \E t \in tasks : t.kind = "drain" /\ t.member = ch

\* C24: no handler creates a context or a drain task, whatever the
\* interleaving of the handlers.
C24_NoContextCreated ==
    \A ch \in ChannelIds :
        /\ ~message_deletion_queue[ch].present
        /\ ~\E t \in tasks : t.kind = "drain"

\* C25: a context has exactly one drain task, scheduled when the context
\* is created: a channel where a violation was handled has its context and
\* one drain task, and a channel has a drain task only with a context
\* created for it.
C25_OneDrainTaskPerContext ==
    \A ch \in ChannelIds :
        LET drains == {t \in tasks : t.kind = "drain" /\ t.member = ch} IN
        /\ MatchedIn(ch) # {} =>
              message_deletion_queue[ch].present /\ Cardinality(drains) = 1
        /\ MatchedIn(ch) = {} =>
              ~message_deletion_queue[ch].present /\ drains = {}

\* C27: on_message spawns the punishment tasks and the drain task without
\* waiting for them: a handler that matched returns having requested the
\* deletion of the offending messages, with its punishment tasks spawned.
C27_SpawnsThenDeletes ==
    \A h \in HandlerIds :
        Matched(h) =>
            /\ handlers[h].outcome = "returned"
            /\ \E t \in tasks : t.kind = "punish" /\ t.msg = handlers[h].msg.id
            /\ \E i \in 1..Len(deletions) : deletions[i].msg = handlers[h].msg.id

----------------------------------------------------------------------------
(* Properties of the candidate pool of the rule engine (Spec) *)

SeqRange(s) == {s[i] : i \in 1..Len(s)}

\* the messages of c occur in pool, in the order they have in pool
InOrderOf(c, pool) ==
    \A j, k \in 1..Len(c) :
        j < k => \E a, b \in 1..Len(pool) :
                     a < b /\ pool[a] = c[j] /\ pool[b] = c[k]

\* C26: on_message fetches the history once per message, bounded by the
\* largest interval of the rules; the candidates given to each rule are
\* exactly the messages of that pool newer than now - rule.interval, in
\* the pool's order, and no rule is given a message of a bot author or a
\* message older than its interval.
C26_CandidatesNarrowedPerRule ==
    \A h \in HandlerIds :
        LET hd == handlers[h] IN
        /\ hd.fetches = IF hd.pc \in {"rules", "done"} /\ Eligible(hd.msg)
                        THEN 1 ELSE 0
        /\ SeqRange(hd.relevant) \subseteq
               {m \in HistoryPool : ~m.bot /\ m.age < MaxInterval}
        /\ Len(hd.candidates) = Cardinality(hd.evaluated)
        /\ \A i \in 1..Len(hd.candidates) :
              LET c == hd.candidates[i]
                  interval == RuleInterval[RuleOrder[i]]
              IN /\ SeqRange(c) = {m \in SeqRange(hd.relevant) : m.age < interval}
                 /\ Len(c) = Cardinality(SeqRange(c))
                 /\ InOrderOf(c, hd.relevant)
                 /\ \A m \in SeqRange(c) : ~m.bot /\ m.age < interval

\* a handler evaluated every rule on a pool of two messages, one of them
\* older than the interval of the last rule
C26_Witness ==
    \E h \in HandlerIds :
        LET hd == handlers[h] IN
        /\ Done(h)
        /\ hd.fetches = 1
        /\ Len(hd.relevant) = 2
        /\ Len(hd.candidates) = Len(RuleOrder)
        /\ Len(hd.candidates[1]) = 2
        /\ Len(hd.candidates[Len(RuleOrder)]) = 1

----------------------------------------------------------------------------
(* Properties of the seen-lists and of the ignore registry (SpecModLog) *)

\* both listeners of the event have ended
Finished(e) ==
    /\ events[e].c # "pending"
    /\ events[e].r \notin {"pending", "sleeping"}

\* C28: the seen-lists stay bounded: once the listeners of every delivered
\* event have ended, every id a cached listener appended has been removed
\* by the raw listener of the same event, and both seen-lists are empty.
C28_SeenListsEmptied ==
    (\A e \in 1..Len(events) : Finished(e))
        => cached_deletes = <<>> /\ cached_edits = <<>>

\* C28, deletions alone: once the listeners of every delivered event have
\* ended, the seen-list of deleted ids is empty.
C28_DeletesEmptied ==
    (\A e \in 1..Len(events) : Finished(e)) => cached_deletes = <<>>

DeletesOf(id) ==
    {e \in 1..Len(events) : events[e].kind = "delete" /\ events[e].id = id}

\* the event is the only deletion of its message
Sole(e) == DeletesOf(events[e].id) = {e}

IgnoreRegistered(id) == Contains(ignored["message_delete"], id)

\* C29: after ignore(message_delete, id), one deletion of id in the
\* monitored scope writes no audit entry and consumes the registry entry
\* once.  Delivered through both paths, the cached listener records the
\* id, removes it from the registry and returns, and the raw listener
\* removes it from the seen-list and returns, leaving the registry alone;
\* delivered through the raw path only, the raw listener removes it from
\* the registry and returns.  Either way the id ends in neither list.
C29_IgnoredDeleteConsumedOnce ==
    [][\A e \in 1..Len(events) :
          LET ev == events[e]
              id == ev.id
              now == events'[e]
          IN ev.kind = "delete" /\ ev.scope = "monitored" =>
             /\ (ev.c = "pending" /\ now.c # "pending" /\ IgnoreRegistered(id))
                   => /\ now.c = "suppressed"
                      /\ ~Contains(ignored'["message_delete"], id)
                      /\ Contains(cached_deletes', id)
                      /\ audit' = audit
             /\ (/\ ev.r = "sleeping" /\ now.r # "sleeping"
                 /\ ev.c = "suppressed" /\ Sole(e))
                   => /\ now.r = "deduped"
                      /\ ignored' = ignored
                      /\ ~Contains(cached_deletes', id)
                      /\ audit' = audit
             /\ (/\ ev.r = "sleeping" /\ now.r # "sleeping"
                 /\ ev.c = "none" /\ Sole(e) /\ IgnoreRegistered(id))
                   => /\ now.r = "suppressed"
                      /\ ~Contains(ignored'["message_delete"], id)
                      /\ ~Contains(cached_deletes', id)
                      /\ audit' = audit]_vars

\* an ignored deletion delivered through both paths and one delivered
\* through the raw path only have both been handled
C29_Witness ==
    /\ \E e \in 1..Len(events) :
          /\ events[e].kind = "delete" /\ Sole(e)
          /\ events[e].c = "suppressed" /\ events[e].r = "deduped"
          /\ ~IgnoreRegistered(events[e].id)
          /\ ~Contains(cached_deletes, events[e].id)
    /\ \E e \in 1..Len(events) :
          /\ events[e].kind = "delete" /\ Sole(e)
          /\ events[e].c = "none" /\ events[e].r = "suppressed"
          /\ ~IgnoreRegistered(events[e].id)
          /\ ~Contains(cached_deletes, events[e].id)
    /\ audit = <<>>

Occurrences(list, x) == Cardinality({i \in 1..Len(list) : list[i] = x})

\* the listeners that end with the given outcome in this step, for id x
Ending(outcome, x) ==
    {e \in 1..Len(events') :
        /\ events'[e].id = x
        /\ \/ /\ events'[e].c = outcome
              /\ (e > Len(events) \/ events[e].c # outcome)
           \/ /\ events'[e].r = outcome
              /\ (e > Len(events) \/ events[e].r # outcome)}

\* in this step the list loses nothing, or it loses one occurrence of one
\* id that it held, removed by exactly one listener ending with outcome
OneRemoval(list, list2, outcome) ==
    \/ \A x \in ModIds : Occurrences(list2, x) >= Occurrences(list, x)
    \/ \E x \in ModIds :
          /\ Occurrences(list, x) >= 1
          /\ Occurrences(list2, x) = Occurrences(list, x) - 1
          /\ \A y \in ModIds \ {x} : Occurrences(list2, y) = Occurrences(list, y)
          /\ Cardinality(Ending(outcome, x)) = 1

\* C30: every step of a listener tests membership and removes (or
\* appends) without suspending in between: whatever the interleaving, a
\* step removes from the registry or from a seen-list at most one entry,
\* which the list held and which exactly one listener consumes, and no
\* listener ends with the ValueError of list.remove.
C30_NoMutationAcrossSuspension ==
    [][/\ \A k \in EventKinds : OneRemoval(ignored[k], ignored'[k], "suppressed")
       /\ OneRemoval(cached_deletes, cached_deletes', "deduped")
       /\ OneRemoval(cached_edits, cached_edits', "deduped")
       /\ \A e \in 1..Len(events') :
             events'[e].c # "ValueError" /\ events'[e].r # "ValueError"]_vars

\* a registry entry and a seen-list entry of the same id have been
\* consumed by the two listeners of one deletion while the listeners of
\* another deletion of that id were in flight
C30_Witness ==
    \E e1, e2 \in 1..Len(events) :
        /\ e1 # e2
        /\ events[e1].kind = "delete" /\ events[e2].kind = "delete"
        /\ events[e1].id = events[e2].id
        /\ events[e1].c = "suppressed" /\ events[e1].r = "deduped"
        /\ events[e2].c \in Emitting /\ events[e2].r = "deduped"
        /\ cached_deletes = <<>>

----------------------------------------------------------------------------
(* Properties of the deletion of a message that is gone (SpecGone) *)

\* the filter run reached msg.delete() and the message was gone
FilterFoundGone ==
    /\ filter_run.msg # None
    /\ filter_run.msg.gone
    /\ filter_run.triggered # ""
    /\ TriggeredType = "filter"

\* C23: NotFound on a deletion is benign.  When the message is gone,
\* _filter_message returns without a deletion, a notification or an audit
\* entry, and calls no filter after the one that triggered; on_message and
\* accept_command of Verification end normally.
C23_NotFoundIsBenign ==
    /\ FilterFoundGone =>
          /\ filter_run.pc \in {"delete", "done"}
          /\ filter_run.deletes = 0
          /\ filter_run.notified = 0
          /\ FilterAuditEntries = {}
          /\ filter_run.evaluated[Len(filter_run.evaluated)] = filter_run.triggered
          /\ filter_run.pc = "done" => filter_run.outcome = "returned"
    /\ verification.pc = "done" => verification.outcome = "returned"
    /\ verification.gone =>
          /\ verification.pc = "done"
          /\ verification.deletes = 0

\* a filter run and a handler of Verification have both ended on a message
\* that was gone
C23_Witness ==
    /\ FilterFoundGone
    /\ filter_run.pc = "done"
    /\ verification.pc = "done"
    /\ verification.gone

----------------------------------------------------------------------------
(* Properties of send_log_message (SpecSendLog) *)

IntroGiven(call) ==
    call.additional_embeds.embeds # <<>> /\ Truthy(call.additional_embeds_msg)

ExtraOf(call) == IF IntroGiven(call) THEN 1 ELSE 0

\* C31: a finished call has sent exactly one primary message, the audit
\* embed with '@everyone' first when ping_everyone is set and then the
\* caller's content if any; after it, when additional embeds are given,
\* the introductory line if one is given and then one message per
\* additional embed in list order; and nothing else.
C31_DeliveryOrder ==
    log_call.pc = "done" =>
        LET call == log_call
            sent == log_call.sent
            embeds == log_call.additional_embeds.embeds
        IN /\ Len(sent) = 1 + ExtraOf(call) + Len(embeds)
           /\ sent[1].embed = "log"
           /\ sent[1].content =
                  (IF call.ping_everyone THEN <<"@everyone">> ELSE <<>>)
                      \o ContentLines(call.content)
           /\ IntroGiven(call) =>
                  sent[2] = [content |-> <<call.additional_embeds_msg>>,
                             embed |-> "None"]
           /\ \A i \in 1..Len(embeds) :
                  sent[1 + ExtraOf(call) + i] =
                      [content |-> <<>>, embed |-> embeds[i]]

----------------------------------------------------------------------------
(* Properties of the eligibility and the debounce of the filters           *)
(* (SpecFilter)                                                            *)

\* the edit came less than the threshold after the previous edit or the
\* creation
BelowThreshold(msg) == msg.delta.some /\ msg.delta.elapsed < 100

Called(name) == name \in SeqRange(filter_run.evaluated)

\* C32: when the handler has ended for a filtered message that triggers no
\* filter and the rich-embed watch is enabled, the watch was evaluated
\* unless the message is an edit that came less than the threshold after
\* the previous edit (or the creation): it is evaluated for a new message
\* and for an edit whose elapsed time is at or above the threshold; and
\* every other enabled filter was evaluated whether or not the watch was
\* skipped.
C32_RichEmbedDebounce ==
    (Filtered /\ filter_run.msg.triggers = {}
         /\ "watch_rich_embeds" \in filter_config.enabled)
        => /\ Called("watch_rich_embeds") <=> ~BelowThreshold(filter_run.msg)
           /\ \A name \in filter_config.enabled \ {"watch_rich_embeds"} :
                  Called(name)

\* C33: a message whose channel is not whitelisted and whose author has no
\* whitelisted role and is not a bot is filtered, whatever its channel:
\* the handler enters the loop over the filters.
C33_EligibleMessagesFiltered ==
    (filter_run.pc = "done" /\ filter_run.msg.author = "member"
         /\ filter_run.msg.channel \notin FilterChannelWhitelist)
        => filter_run.idx >= 1

----------------------------------------------------------------------------
(* Properties of the two listeners of one deletion (SpecDeletes) and of    *)
(* the ignore registry (SpecRegistry)                                      *)

NoDuplicates(list) ==
    \A i, j \in 1..Len(list) : i # j => list[i] # list[j]

\* C35: every list of the registry is free of duplicates, so the step of a
\* listener that consumes an entry of an id leaves the id out of the
\* registry, and it is the step of exactly one listener: however many
\* times the id was registered, one observation is suppressed and the next
\* one is not.
C35_RegistryDuplicateFree ==
    /\ [](\A k \in EventKinds : NoDuplicates(ignored[k]))
    /\ [][\A k \in EventKinds, x \in ModIds :
             Occurrences(ignored'[k], x) < Occurrences(ignored[k], x)
                 => /\ ~Contains(ignored'[k], x)
                    /\ Cardinality(Ending("suppressed", x)) = 1]_vars

\* an id was given to ignore while the registry held it; of two deletions
\* of that message the first was suppressed and the second was not, and
\* the registry no longer holds the id
C35_Witness ==
    /\ re_registered = [kind |-> "message_delete", id |-> 1]
    /\ Len(events) = 2
    /\ events[1].kind = "delete" /\ events[1].id = 1
    /\ events[2].kind = "delete" /\ events[2].id = 1
    /\ Suppressed(1)
    /\ ~Suppressed(2) /\ ReachedLog(2)
    /\ ~IgnoreRegistered(1)

----------------------------------------------------------------------------
(* Properties of punish (SpecPunish) *)

----------------------------------------------------------------------------
(* Properties of the clean commands (SpecClean) *)

\* the clean is past the test of the flag: it reads the history or purges
PastGuard(i) == cleans[i].pc \in {"history", "delete", "purge"}

Scanning(i) == cleans[i].pc \in {"history", "delete"}

\* C37: at most one clean is past the test of the flag at any time, and a
\* clean that was rejected because another was going on has requested no
\* deletion.
C37_CleanMutualExclusion ==
    /\ Cardinality({i \in CleanIds : PastGuard(i)}) <= 1
    /\ \A i \in CleanIds :
          cleans[i].outcome = "rejected"
              => \A d \in clean_deleted : d.by # i

\* C38: the id of every message a clean asks to delete, the invocation and
\* every message of the purge, is in the ignore registry when the deletion
\* is requested.
C38_DeletionsIgnoredFirst ==
    \A d \in clean_deleted : d.registered

\* C39: the flag is set only while a clean that set it is reading the
\* history: once every such clean has ended, by whatever path, the flag is
\* False.
C39_CleaningReleased ==
    cleaning => \E i \in CleanIds : Scanning(i)

----------------------------------------------------------------------------
(* Properties of the start-up of the AntiSpam cog (SpecStartup) *)

ValidationAlerts == {i \in 1..Len(audit) : audit[i].path = "validation"}

\* C21: when the cog is constructed with validation errors, its start-up
\* task posts exactly one alert that lists every error and unloads the cog.
C21_InvalidConfigAlertsAndUnloads ==
    (antispam_cog.validation_errors # {} /\ antispam_cog.alert # "pending")
        => /\ antispam_cog.alert = "sent"
           /\ ~antispam_cog.loaded
           /\ Cardinality(ValidationAlerts) = 1
           /\ \A i \in ValidationAlerts :
                 audit[i].errors = antispam_cog.validation_errors

====
